---- MODULE Spec2Model ----
(***************************************************************************)
(* Model of the Level Zero kernel tracing collector of pti-gpu:            *)
(*   ZeKernelCollector   (samples/ze_hot_kernels/ze_kernel_collector.h)    *)
(*   LzCollector         (its owner; constructor and destructor)           *)
(* The collector is driven by the hooks the Level Zero tracing layer calls *)
(* around driver calls.  The driver and the device are the environment.    *)
(***************************************************************************)
EXTENDS Integers, Sequences, FiniteSets, TLC

(***************************************************************************)
(* Unsigned fixed-width integers.                                          *)
(* A uint64_t is a sequence of 8 limbs, base 256, least significant limb   *)
(* first, so that products of ticks by 10^9 and their wrap-around modulo   *)
(* 2^64 are computed exactly.  The same operators work on wider sequences  *)
(* (12 limbs), which hold the mathematical value of every intermediate.    *)
(***************************************************************************)
RECURSIVE ToLimbs(_, _)
ToLimbs(v, n) ==
  IF n = 0 THEN <<>> ELSE <<v % 256>> \o ToLimbs(v \div 256, n - 1)

\* a small natural number as a uint64_t
U64(v) == ToLimbs(v, 8)

\* x widened (zero extended) to n limbs
Widen(x, n) == x \o [i \in 1..(n - Len(x)) |-> 0]

\* a + b modulo 256^Len(a)
RECURSIVE AddC(_, _, _, _)
AddC(a, b, i, c) ==
  IF i > Len(a) THEN <<>>
  ELSE LET s == a[i] + b[i] + c
       IN <<s % 256>> \o AddC(a, b, i + 1, s \div 256)

Add(a, b) == AddC(a, b, 1, 0)

\* a - b modulo 256^Len(a)
RECURSIVE SubB(_, _, _, _)
SubB(a, b, i, br) ==
  IF i > Len(a) THEN <<>>
  ELSE LET d == a[i] - b[i] - br
       IN <<d % 256>> \o SubB(a, b, i + 1, IF d < 0 THEN 1 ELSE 0)

Sub(a, b) == SubB(a, b, 1, 0)

\* a < b
RECURSIVE LessFrom(_, _, _)
LessFrom(a, b, i) ==
  IF i = 0 THEN FALSE
  ELSE IF a[i] # b[i] THEN a[i] < b[i] ELSE LessFrom(a, b, i - 1)

Less(a, b) == LessFrom(a, b, Len(a))

\* a * b modulo 256^Len(a)
RECURSIVE ColSum(_, _, _, _)
ColSum(a, b, k, i) ==
  IF i > k THEN 0 ELSE a[i] * b[k + 1 - i] + ColSum(a, b, k, i + 1)

RECURSIVE MulC(_, _, _, _)
MulC(a, b, k, c) ==
  IF k > Len(a) THEN <<>>
  ELSE LET s == ColSum(a, b, k, 1) + c
       IN <<s % 256>> \o MulC(a, b, k + 1, s \div 256)

Mul(a, b) == MulC(a, b, 1, 0)

\* floor(a / d) for a divisor 0 < d < 2^23, by long division from the most
\* significant limb down
RECURSIVE DivFrom(_, _, _, _)
DivFrom(a, d, i, rem) ==
  IF i = 0 THEN <<>>
  ELSE LET cur == rem * 256 + a[i]
       IN DivFrom(a, d, i - 1, cur % d) \o <<cur \div d>>

\* floor(a / f) for a divisor 0 < f < 2^30 that is p * q with p <= 1024 and
\* q < 2^23: floor(floor(a / p) / q)
Div(a, f) ==
  LET p == CHOOSE p \in 1..1024 : f % p = 0 /\ f \div p < 8388608
  IN DivFrom(DivFrom(a, p, Len(a), 0), f \div p, Len(a), 0)

\* 1ULL << 32
Two32 == <<0, 0, 0, 0, 1, 0, 0, 0>>

\* NSEC_IN_SEC, 1000000000 = 0x3B9ACA00
NSEC_IN_SEC == <<0, 202, 154, 59, 0, 0, 0, 0>>



(***************************************************************************)
(* Bounds and input domains.                                               *)
(***************************************************************************)
\* kernel-append calls the traced program makes in one run
MaxLaunches == 2

\* kernel-append calls of the run that launches one command list's kernels
\* and synchronizes once
MaxBurst == 3

\* hooks that can be inside a kernel-append call at the same time
MaxThreads == 2

\* event handles the driver has to hand out (to the program and the tracker)
MaxEvents == 4

\* events the traced program itself holds at a time
MaxAppEvents == 1

\* command list handles the driver has to hand out
MaxLists == 1

\* contexts the traced program uses
MaxContexts == 1

\* buffers a consumer can have requested in one run
MaxBuffers == 2

\* records a buffer has room for (kDefaultViewRecords in pti-adapter.cc)
MaxRecords == 3

\* a handle is a positive number; the null handle is 0
nullptr == 0
Events == 1..MaxEvents
Threads == 1..MaxThreads
Lists == 1..MaxLists
Contexts == 1..MaxContexts

\* pti_view_kind: the tag a record starts with
PTI_VIEW_INVALID == 0
PTI_VIEW_DEVICE_GPU_KERNEL == 1
PTI_VIEW_DEVICE_GPU_MEM_COPY == 8
PTI_VIEW_DEVICE_GPU_MEM_FILL == 9

\* sizeof(pti_view_record_kernel), the biggest record
kBiggestRecordSize == 152
kDefaultBufSize == MaxRecords * kBiggestRecordSize

\* a buffer is known by its address; what the heap knows of it: whether it
\* is allocated, which consumer requested it, the records and the valid
\* length it came back with, and how often it was deleted
Buffers == {k * kDefaultBufSize : k \in 1..MaxBuffers}
NoBuffer == [st |-> "unallocated", owner |-> "none", data |-> <<>>,
             valid |-> 0, deletes |-> 0]

\* kernels of the traced program: GetKernelName / GetKernelMaxSubgroupSize
Kernels == {[name |-> "K1", simd_width |-> 8],
            [name |-> "K2", simd_width |-> 16]}
Names == {k.name : k \in Kernels}
BurstKernels == {[name |-> "K1", simd_width |-> 8],
                 [name |-> "K1", simd_width |-> 16],
                 [name |-> "K2", simd_width |-> 8]}

\* utils::i915::GetGpuTimerFrequency(): cycles per second, below 2^30
TimerFrequencies == {12500000}
BurstFrequencies == {1000000000}

Ticks(start, end) == [start |-> start, end |-> end]
NoTicks == Ticks(U64(0), U64(0))

\* ze_kernel_timestamp_result_t.global {kernelStart, kernelEnd} the device
\* writes: an ordinary pair, a pair across the 32-bit wrap, and a pair whose
\* start is beyond 32 bits and not before its end
DeviceTicks == {Ticks(U64(100), U64(110)),
                Ticks(Sub(Two32, U64(6)), U64(10)),
                Ticks(Add(Two32, U64(5)), U64(3))}

\* the pairs of the burst: kernels that run 10, 30 and 20 ticks
BurstTicks == {Ticks(U64(100), U64(110)),
               Ticks(U64(200), U64(230)),
               Ticks(U64(300), U64(320))}

\* what a timestamp query of the view collector reports
ViewTicks == {Ticks(U64(100), U64(110))}

(***************************************************************************)
(* State.                                                                  *)
(***************************************************************************)
VARIABLES
  tracer_,               \* "enabled", "disabled" or "destroyed"
  timer_frequency_,
  kernel_info_map_,      \* name -> ZeKernelInfo
  kernel_interval_list_, \* sequence of ZeKernelInterval
  kernel_instance_list_, \* sequence of ZeKernelInstance
  command_list_map_,     \* command list -> context
  aborted,               \* a PTI_ASSERT failed: the process is gone
  instance_data,         \* per call in progress: what the pre-hook left
  zeEvent,               \* driver: event handle -> [st, ts]
  zeCommandList,         \* driver: the command lists that exist
  tracker_events,        \* events CreateEvent made and nobody destroyed yet
  tracker_pools,         \* event pools CreateEvent made and not destroyed
  launches,              \* kernel-append calls made so far
  removed,               \* history: instances erased from kernel_instance_list_
  resolved,              \* history: events of the instances erased so far
  folded,                \* history: the arguments of the AddKernelInfo calls
  last,                  \* history: the hook that ran last
  buffer_,               \* ZeKernelViewCollector: the records of its buffer
  ts_list_,              \* ZeKernelViewCollector: its TimestampListEntry's
  view_command_list_map_, \* ZeKernelViewCollector::command_list_map_
  hung,                  \* a hook is in a loop it never leaves
  cerr,                  \* the rows PrintKernelsTable wrote
  printed,               \* history: the map PrintKernelsTable was given
  cout,                  \* the kernels ~ZeKernelViewCollector found
  heap,                  \* the buffers of the consumers: buffer -> its state
  chrome_log_,           \* PtiSettings: the trace events of the records
  buffer_store_,         \* BufferStore: the buffers it owns
  kernel_record_store_,  \* BufferStore: pointers to the kernel records
  lock_,                 \* ZeKernelCollector::lock_: the thread that holds it
  pc,                    \* per thread: the member function it is in
  wiring                 \* what the tracing layer and the view library
                         \* have been told: tables set, callbacks, views

vars == <<tracer_, timer_frequency_, kernel_info_map_, kernel_interval_list_,
          kernel_instance_list_, command_list_map_, aborted, instance_data,
          zeEvent, zeCommandList, tracker_events, tracker_pools, launches,
          removed, resolved, folded, last, buffer_, ts_list_,
          view_command_list_map_, hung, cerr, printed, cout, heap,
          chrome_log_, buffer_store_, kernel_record_store_, lock_, pc,
          wiring>>

\* what the tools around the collectors have
printvars == <<cerr, printed>>
consumervars == <<heap, chrome_log_, buffer_store_, kernel_record_store_>>
threadvars == <<lock_, pc>>
toolvars == <<printvars, cout, consumervars, threadvars, wiring>>

\* what the hooks of both collectors use
hookvars == <<tracer_, aborted, instance_data, zeEvent, zeCommandList,
              tracker_events, tracker_pools, launches, last>>

\* what only ZeKernelViewCollector has, and what only ZeKernelCollector has
viewvars == <<buffer_, ts_list_, view_command_list_map_, hung>>
samplevars == <<timer_frequency_, kernel_info_map_, kernel_interval_list_,
                kernel_instance_list_, command_list_map_, removed, resolved,
                folded>>

\* wiring: whether the tracer has its prologue and its epilogue table,
\* whether the view library has the buffer callbacks, the views that are
\* enabled and whether the views have been flushed
PTI_VIEW_SYCL_RUNTIME_CALLS == 6
ViewKinds == <<PTI_VIEW_DEVICE_GPU_KERNEL, PTI_VIEW_DEVICE_GPU_MEM_COPY,
               PTI_VIEW_DEVICE_GPU_MEM_FILL, PTI_VIEW_SYCL_RUNTIME_CALLS>>
Wiring(prologues, epilogues, callbacks, views, flushed) ==
  [prologues |-> prologues, epilogues |-> epilogues, callbacks |-> callbacks,
   views |-> views, flushed |-> flushed]
NotWired == Wiring(FALSE, FALSE, FALSE, {}, FALSE)
Wired == Wiring(TRUE, TRUE, TRUE, {ViewKinds[i] : i \in 1..Len(ViewKinds)},
                FALSE)

\* pc: a thread is in no member function, waits for the lock_guard of one,
\* or is inside one and uses the data member `on`
Idle == [op |-> "none", on |-> "none", at |-> "idle"]

\* last: the hook, the event or command list it was called for, whether the
\* driver call it belongs to succeeded, and how many instances it erased
Hook(op, handle, ok, n) == [op |-> op, handle |-> handle, ok |-> ok, n |-> n]
NoHook == Hook("none", nullptr, TRUE, 0)

(***************************************************************************)
(* The driver calls the collector makes.                                   *)
(***************************************************************************)
ZE_RESULT_SUCCESS == "ZE_RESULT_SUCCESS"
ZE_RESULT_NOT_READY == "ZE_RESULT_NOT_READY"
ZE_RESULT_ERROR_DEVICE_LOST == "ZE_RESULT_ERROR_DEVICE_LOST"
Results == {ZE_RESULT_SUCCESS, ZE_RESULT_ERROR_DEVICE_LOST}

zeEventQueryStatus(ev, event) ==
  IF ev[event].st = "ready" THEN ZE_RESULT_SUCCESS
  ELSE IF ev[event].st = "not_ready" THEN ZE_RESULT_NOT_READY
  ELSE ZE_RESULT_ERROR_DEVICE_LOST

\* zeEventDestroy / zeEventPoolDestroy of what CreateEvent made
zeEventDestroy(ev, event) ==
  [ev EXCEPT ![event] = [st |-> "dead", ts |-> NoTicks]]

\* the handle the driver gives the next event or event pool it creates
Lowest(S) == CHOOSE e \in S : \A o \in S : e <= o
FreeEvents(ev) == {e \in Events : ev[e].st = "dead"}
FreePools(pools) == Events \ pools

\* the inputs of the timestamp conversion taken by themselves: ticks around
\* the 32-bit boundary and beyond it, against several timer frequencies
Two35 == <<0, 0, 0, 0, 8, 0, 0, 0>>
TimeStarts == {U64(0), U64(100), Sub(Two32, U64(6)), Sub(Two32, U64(1)),
               Two32, Add(Two32, U64(5)), Two35}
TimeEnds == {U64(0), U64(3), U64(10), U64(110), Sub(Two32, U64(1)),
             Add(Two32, U64(7)), Add(Two35, U64(10))}
TimeTicks == {Ticks(s, e) : s \in TimeStarts, e \in TimeEnds}
TimeFrequencies == {1000000000, 19200000, 12500000}

(***************************************************************************)
(* ZeKernelCollector: the functions behind the hooks.  They work on a      *)
(* record c of the collector's members and the driver objects they touch;  *)
(* a failed PTI_ASSERT sets c.aborted and ends the function there.         *)
(***************************************************************************)
Collector ==
  [info |-> kernel_info_map_, intervals |-> kernel_interval_list_,
   instances |-> kernel_instance_list_, lists |-> command_list_map_,
   ev |-> zeEvent, tevents |-> tracker_events, tpools |-> tracker_pools,
   aborted |-> aborted, resolved |-> resolved, folded |-> folded]

Abort(c) == [c EXCEPT !.aborted = TRUE]

Erase(list, i) == SubSeq(list, 1, i - 1) \o SubSeq(list, i + 1, Len(list))

\* the converted pair and time = end - start, as ProcessInstance passes them
\* on
ConvertedPair(ok, start_ns, end_ns) ==
  [ok |-> ok, start_ns |-> start_ns, end_ns |-> end_ns,
   time |-> Sub(end_ns, start_ns)]

\* the conversion with the bug of not adding 2^32 to an end below the start
TimestampsNoWrap(start, end, f) ==
  ConvertedPair(Less(start, end) \/ Less(start, Two32),
            Div(Mul(start, NSEC_IN_SEC), f), Div(Mul(end, NSEC_IN_SEC), f))

\* the conversion with the bug of dividing the ticks by the frequency before
\* multiplying them
TimestampsDivideFirst(start, end, f) ==
  ConvertedPair(Less(start, end) \/ Less(start, Two32),
            Mul(Div(start, f), NSEC_IN_SEC),
            Mul(Div(IF Less(start, end) THEN end ELSE Add(Two32, end), f),
                NSEC_IN_SEC))

\* ProcessInstance(const ZeKernelInstance&), the conversion of the device
\* ticks: ok is FALSE when PTI_ASSERT(start < (1ULL << 32)) fails
Timestamps(start, end, f) ==
  ConvertedPair(Less(start, end) \/ Less(start, Two32),
            Div(Mul(start, NSEC_IN_SEC), f),
            Div(Mul(IF Less(start, end) THEN end ELSE Add(Two32, end),
                    NSEC_IN_SEC), f))

\* the conversion of every pair the device can write, computed once
TimestampsTable ==
  [x \in DeviceTicks \cup BurstTicks \cup TimeTicks \cup {NoTicks},
   f \in TimerFrequencies \cup BurstFrequencies \cup TimeFrequencies |->
     Timestamps(x.start, x.end, f)]

\* AddKernelInfo with the bug of never lowering min_time
AddKernelInfoKeepsMin(map, name, time, simd_width) ==
  IF name \notin DOMAIN map
  THEN [n \in DOMAIN map \cup {name} |->
          IF n = name
          THEN [total_time |-> time, min_time |-> time, max_time |-> time,
                call_count |-> 1, simd_width |-> simd_width]
          ELSE map[n]]
  ELSE [map EXCEPT ![name] =
          [total_time |-> Add(@.total_time, time),
           min_time |-> @.min_time,
           max_time |-> IF Less(@.max_time, time) THEN time ELSE @.max_time,
           call_count |-> @.call_count + 1,
           simd_width |-> IF @.simd_width < simd_width
                          THEN simd_width ELSE @.simd_width]]

\* AddKernelInfo with the bug of replacing an entry instead of adding to it
AddKernelInfoReplaces(map, name, time, simd_width) ==
  [n \in DOMAIN map \cup {name} |->
     IF n = name
     THEN [total_time |-> time, min_time |-> time, max_time |-> time,
           call_count |-> 1, simd_width |-> simd_width]
     ELSE map[n]]

\* AddKernelInfo with the bug of not adding the duration to total_time
AddKernelInfoKeepsTotal(map, name, time, simd_width) ==
  IF name \notin DOMAIN map
  THEN [n \in DOMAIN map \cup {name} |->
          IF n = name
          THEN [total_time |-> time, min_time |-> time, max_time |-> time,
                call_count |-> 1, simd_width |-> simd_width]
          ELSE map[n]]
  ELSE [map EXCEPT ![name] =
          [total_time |-> @.total_time,
           min_time |-> IF Less(time, @.min_time) THEN time ELSE @.min_time,
           max_time |-> IF Less(@.max_time, time) THEN time ELSE @.max_time,
           call_count |-> @.call_count + 1,
           simd_width |-> IF @.simd_width < simd_width
                          THEN simd_width ELSE @.simd_width]]

AddKernelInfo(map, name, time, simd_width) ==
  IF name \notin DOMAIN map
  THEN [n \in DOMAIN map \cup {name} |->
          IF n = name
          THEN [total_time |-> time, min_time |-> time, max_time |-> time,
                call_count |-> 1, simd_width |-> simd_width]
          ELSE map[n]]
  ELSE [map EXCEPT ![name] =
          [total_time |-> Add(@.total_time, time),
           min_time |-> IF Less(time, @.min_time) THEN time ELSE @.min_time,
           max_time |-> IF Less(@.max_time, time) THEN time ELSE @.max_time,
           call_count |-> @.call_count + 1,
           simd_width |-> IF @.simd_width < simd_width
                          THEN simd_width ELSE @.simd_width]]

\* AddKernelInterval with the bug of appending the interval twice
AddKernelIntervalTwice(c, name, start, end) ==
  IF ~Less(start, end) THEN Abort(c)
  ELSE [c EXCEPT !.intervals =
          Append(Append(@, [name |-> name, start |-> start, end |-> end]),
                 [name |-> name, start |-> start, end |-> end])]

\* an interval list that takes a new interval at its front
AddKernelIntervalAtFront(c, name, start, end) ==
  IF ~Less(start, end) THEN Abort(c)
  ELSE [c EXCEPT !.intervals =
          <<[name |-> name, start |-> start, end |-> end]>> \o @]

AddKernelInterval(c, name, start, end) ==
  IF ~Less(start, end) THEN Abort(c)
  ELSE [c EXCEPT !.intervals =
          Append(@, [name |-> name, start |-> start, end |-> end])]

\* ProcessInstance(const ZeKernelInstance&) from AddKernelInfo on, t being
\* the converted timestamps
AddConvertedPair(c, instance, t) ==
  IF ~t.ok THEN Abort(c)
  ELSE AddKernelInterval(
         [c EXCEPT !.info = AddKernelInfo(@, instance.name, t.time,
                                          instance.simd_width),
                   !.folded = Append(@, [name |-> instance.name,
                                         time |-> t.time,
                                         simd_width |-> instance.simd_width])],
         instance.name, t.start_ns, t.end_ns)

\* ProcessInstance(const ZeKernelInstance&), its end: the event and the pool
\* the collector made for the instance are destroyed
DestroyOwned(c, instance) ==
  IF c.aborted \/ instance.event_pool = nullptr THEN c
  ELSE [c EXCEPT !.ev = zeEventDestroy(@, instance.event),
                 !.tevents = @ \ {instance.event},
                 !.tpools = @ \ {instance.event_pool}]

ProcessInstance(c, instance, f) ==
  IF zeEventQueryStatus(c.ev, instance.event) # ZE_RESULT_SUCCESS
  THEN Abort(c)
  ELSE DestroyOwned(AddConvertedPair(c, instance,
                                 TimestampsTable[c.ev[instance.event].ts, f]),
                    instance)

\* what erasing the processed instance leaves
Erased(c, it) ==
  [c EXCEPT !.instances = Erase(@, it),
            !.resolved = @ \cup {c.instances[it].event}]

\* the instance at it is erased once ProcessInstance has returned
ErasedIfAlive(c, it) == IF c.aborted THEN c ELSE Erased(c, it)

\* ProcessInstance(ze_event_handle_t) with the bug of insisting that the
\* event has an instance
ProcessInstanceEventStrict(c, event, f) ==
  LET found == {i \in 1..Len(c.instances) : c.instances[i].event = event}
  IN IF found = {} THEN Abort(c)
     ELSE ErasedIfAlive(ProcessInstance(c, c.instances[Lowest(found)], f),
                        Lowest(found))

\* ProcessInstance(ze_event_handle_t)
ProcessInstanceEvent(c, event, f) ==
  LET found == {i \in 1..Len(c.instances) : c.instances[i].event = event}
  IN IF found = {} THEN c
     ELSE ErasedIfAlive(ProcessInstance(c, c.instances[Lowest(found)], f),
                        Lowest(found))

RECURSIVE ProcessInstancesFrom(_, _, _)
\* the loop goes on at the successor of the erased instance
ProcessInstancesNext(c, it, f) ==
  IF c.aborted THEN c ELSE ProcessInstancesFrom(Erased(c, it), it, f)

ProcessInstancesFrom(c, it, f) ==
  IF c.aborted \/ it > Len(c.instances) THEN c
  ELSE IF zeEventQueryStatus(c.ev, c.instances[it].event) = ZE_RESULT_NOT_READY
  THEN ProcessInstancesFrom(c, it + 1, f)
  ELSE IF zeEventQueryStatus(c.ev, c.instances[it].event) = ZE_RESULT_SUCCESS
  THEN ProcessInstancesNext(ProcessInstance(c, c.instances[it], f), it, f)
  ELSE Abort(c)

\* a pass that looks at the first instance only
ProcessFirstInstance(c, f) ==
  IF c.instances = <<>> THEN c
  ELSE IF zeEventQueryStatus(c.ev, c.instances[1].event) = ZE_RESULT_SUCCESS
  THEN ErasedIfAlive(ProcessInstance(c, c.instances[1], f), 1)
  ELSE c

ProcessInstances(c, f) == ProcessInstancesFrom(c, 1, f)

AddKernelInstance(c, command_list, instance) ==
  IF command_list = nullptr THEN Abort(c)
  ELSE [c EXCEPT !.instances = Append(@, instance)]

AddCommandList(c, command_list, context) ==
  IF command_list = nullptr \/ command_list \in DOMAIN c.lists THEN Abort(c)
  ELSE [c EXCEPT !.lists = [l \in DOMAIN @ \cup {command_list} |->
                              IF l = command_list THEN context ELSE @[l]]]

RemoveCommandList(c, command_list) ==
  IF command_list = nullptr \/ command_list \notin DOMAIN c.lists
  THEN Abort(c)
  ELSE [c EXCEPT !.lists = [l \in DOMAIN @ \ {command_list} |-> @[l]]]

\* GetCommandListContext and CreateEvent, as OnEnterKernelAppend calls them.
\* The result of zeEventCreate is not assigned to status, so the assertion
\* after it passes whatever it is; when it fails, event is the value that
\* instance->event held before (stale)
CreateEvent(c, command_list, pool_status, event_status, stale) ==
  IF command_list \notin DOMAIN c.lists \/ pool_status # ZE_RESULT_SUCCESS
  THEN [c |-> Abort(c), event_pool |-> nullptr, event |-> nullptr]
  ELSE IF event_status # ZE_RESULT_SUCCESS
  THEN [c |-> [c EXCEPT !.tpools = @ \cup {Lowest(FreePools(c.tpools))}],
        event_pool |-> Lowest(FreePools(c.tpools)), event |-> stale]
  ELSE LET event_pool == Lowest(FreePools(c.tpools))
           event == Lowest(FreeEvents(c.ev))
       IN [c |-> [c EXCEPT !.ev[event] = [st |-> "not_ready", ts |-> NoTicks],
                           !.tevents = @ \cup {event},
                           !.tpools = @ \cup {event_pool}],
           event_pool |-> event_pool, event |-> event]

(***************************************************************************)
(* The hooks.  Each is one step: the hook's code and, for a prologue, the  *)
(* driver call it precedes; for an epilogue, the driver call it follows.   *)
(* A kernel append is two steps, its pre-hook and its post-hook, and other *)
(* threads run in between.                                                 *)
(***************************************************************************)
Live == tracer_ = "enabled" /\ ~aborted /\ ~hung
Calls == DOMAIN instance_data
FreeThread == Cardinality(Calls) < MaxThreads
AppEvents == {e \in Events : zeEvent[e].st # "dead" /\ e \notin tracker_events}

\* how many instances have left kernel_instance_list_ when c is reached
Gone(c) ==
  IF Len(c.instances) < Len(kernel_instance_list_)
  THEN Len(kernel_instance_list_) - Len(c.instances) ELSE 0

Commit(c) ==
  /\ kernel_info_map_' = c.info
  /\ kernel_interval_list_' = c.intervals
  /\ kernel_instance_list_' = c.instances
  /\ command_list_map_' = c.lists
  /\ zeEvent' = c.ev
  /\ tracker_events' = c.tevents
  /\ tracker_pools' = c.tpools
  /\ aborted' = c.aborted
  /\ removed' = removed + Gone(c)
  /\ resolved' = c.resolved
  /\ folded' = c.folded
  /\ UNCHANGED <<viewvars, toolvars>>

\* the hook op returns with the collector as c
Return(c, op, handle, ok) ==
  /\ Commit(c)
  /\ last' = Hook(op, handle, ok, Gone(c))

\* zeCommandListCreate / zeCommandListCreateImmediate, then the epilogue
CommandListCreated(op, context, result) ==
  /\ Live /\ FreeThread
  /\ IF result = ZE_RESULT_SUCCESS
     THEN /\ Lists \ zeCommandList # {}
          /\ LET command_list == Lowest(Lists \ zeCommandList)
             IN /\ zeCommandList' = zeCommandList \cup {command_list}
                /\ Commit(AddCommandList(Collector, command_list, context))
                /\ last' = Hook(op, command_list, TRUE, 0)
     ELSE /\ Commit(Collector)
          /\ last' = Hook(op, nullptr, FALSE, 0)
          /\ UNCHANGED zeCommandList
  /\ UNCHANGED <<tracer_, timer_frequency_, instance_data, launches>>

OnExitCommandListCreate(context, result) ==
  CommandListCreated("OnExitCommandListCreate", context, result)

OnExitCommandListCreateImmediate(context, result) ==
  CommandListCreated("OnExitCommandListCreateImmediate", context, result)

\* OnExitCommandListDestroy once ProcessInstances has returned
ListDestroyed(c, command_list) ==
  IF c.aborted THEN c ELSE RemoveCommandList(c, command_list)

\* zeCommandListDestroy, then the epilogue
OnExitCommandListDestroy(command_list, result) ==
  /\ Live /\ FreeThread
  /\ command_list \in zeCommandList
  /\ IF result = ZE_RESULT_SUCCESS
     THEN /\ Return(ListDestroyed(
                      ProcessInstances(Collector, timer_frequency_),
                      command_list),
                    "OnExitCommandListDestroy", command_list, TRUE)
          /\ zeCommandList' = zeCommandList \ {command_list}
     ELSE /\ Commit(Collector)
          /\ last' = Hook("OnExitCommandListDestroy", command_list, FALSE, 0)
          /\ UNCHANGED zeCommandList
  /\ UNCHANGED <<tracer_, timer_frequency_, instance_data, launches>>

\* what OnEnterKernelAppend leaves in *instance_data and in the call's
\* signal event parameter
Slot(kernel, command_list, signal_event, instance, event_pool, event) ==
  [command_list |-> command_list, signal_event |-> signal_event,
   instance |-> instance, name |-> kernel.name,
   simd_width |-> kernel.simd_width, event_pool |-> event_pool,
   event |-> event]

Enter(call, slot) ==
  [k \in Calls \cup {call} |-> IF k = call THEN slot ELSE instance_data[k]]

Leave(call) == [k \in Calls \ {call} |-> instance_data[k]]

\* the prologue of zeCommandListAppendLaunchKernel, ...CooperativeKernel and
\* ...KernelIndirect
OnEnterKernelAppend(kernel, signal_event, command_list, pool_status, event_status, stale) ==
  /\ Live /\ FreeThread
  /\ (command_list = nullptr \/ signal_event # nullptr
        \/ pool_status # ZE_RESULT_SUCCESS)
       => event_status = ZE_RESULT_SUCCESS
  /\ event_status = ZE_RESULT_SUCCESS => stale = nullptr
  /\ launches' = launches + 1
  /\ last' = Hook("OnEnterKernelAppend", command_list, TRUE, 0)
  /\ IF command_list = nullptr
     THEN /\ pool_status = ZE_RESULT_SUCCESS
          /\ instance_data' =
               Enter(launches + 1, Slot(kernel, command_list, signal_event,
                                        FALSE, nullptr, nullptr))
          /\ Commit(Collector)
     ELSE IF signal_event = nullptr
     THEN /\ FreeEvents(zeEvent) # {} /\ FreePools(tracker_pools) # {}
          /\ LET r == CreateEvent(Collector, command_list, pool_status,
                                  event_status, stale)
             IN /\ Commit(r.c)
                /\ instance_data' =
                     IF r.c.aborted THEN instance_data
                     ELSE Enter(launches + 1,
                                Slot(kernel, command_list, r.event, TRUE,
                                     r.event_pool, r.event))
     ELSE /\ pool_status = ZE_RESULT_SUCCESS
          /\ instance_data' =
               Enter(launches + 1, Slot(kernel, command_list, signal_event,
                                        TRUE, nullptr, signal_event))
          /\ Commit(Collector)
  /\ UNCHANGED <<tracer_, timer_frequency_, zeCommandList>>

\* how often a hook that ends with the collector as c has executed the
\* delete of the object its prologue stored, stored telling whether there
\* is one
NeverDeleted(c, stored) == 0
Deleted(c, stored) == IF stored /\ ~c.aborted THEN 1 ELSE 0

\* the epilogue of the same call, the driver's result known; last.n is the
\* number of times it has executed delete instance
OnExitKernelAppend(call, result) ==
  /\ Live /\ call \in Calls
  /\ LET d == instance_data[call]
         instance == [name |-> d.name, simd_width |-> d.simd_width,
                      event_pool |-> d.event_pool, event |-> d.event,
                      command_list |-> d.command_list]
         c == Collector
         c1 == IF d.signal_event = nullptr \/ d.command_list = nullptr
               THEN Abort(c)
               ELSE IF ~d.instance THEN c
               ELSE IF result # ZE_RESULT_SUCCESS
               THEN IF d.event_pool # nullptr
                    THEN IF c.ev[d.event].st = "dead" THEN Abort(c)
                    ELSE [c EXCEPT !.ev = zeEventDestroy(@, d.event),
                                   !.tevents = @ \ {d.event},
                                   !.tpools = @ \ {d.event_pool}]
                    ELSE c
               ELSE AddKernelInstance(c, d.command_list, instance)
     IN /\ Commit(c1)
        /\ last' = Hook("OnExitKernelAppend", d.event,
                        result = ZE_RESULT_SUCCESS, Deleted(c1, d.instance))
  /\ instance_data' = Leave(call)
  /\ UNCHANGED <<tracer_, timer_frequency_, zeCommandList, launches>>

\* zeEventDestroy and zeEventHostReset in the driver, reached when the
\* prologue has returned
EventDestroyed(c, event) ==
  IF c.aborted THEN c ELSE [c EXCEPT !.ev = zeEventDestroy(@, event)]

EventReset(c, event) ==
  IF c.aborted THEN c
  ELSE [c EXCEPT !.ev[event] = [st |-> "not_ready", ts |-> NoTicks]]

\* the prologue of zeEventDestroy, then the driver destroys the event
OnEnterEventDestroy(event) ==
  /\ Live /\ FreeThread
  /\ Return(IF event = nullptr THEN Collector
            ELSE EventDestroyed(
                   ProcessInstanceEvent(Collector, event, timer_frequency_),
                   event),
            "OnEnterEventDestroy", event, TRUE)
  /\ UNCHANGED <<tracer_, timer_frequency_, instance_data, zeCommandList,
                 launches>>

\* the prologue of zeEventHostReset, then the driver resets the event
OnEnterEventHostReset(event) ==
  /\ Live /\ FreeThread
  /\ Return(IF event = nullptr THEN Collector
            ELSE EventReset(
                   ProcessInstanceEvent(Collector, event, timer_frequency_),
                   event),
            "OnEnterEventHostReset", event, TRUE)
  /\ UNCHANGED <<tracer_, timer_frequency_, instance_data, zeCommandList,
                 launches>>

\* an epilogue that polls whatever the result of the call
CommandQueueDoneWhateverResult(op, result) ==
  /\ Live /\ FreeThread
  /\ Return(ProcessInstances(Collector, timer_frequency_), op, nullptr,
            result = ZE_RESULT_SUCCESS)
  /\ UNCHANGED <<tracer_, timer_frequency_, instance_data, zeCommandList,
                 launches>>

\* the epilogues of zeCommandQueueSynchronize and zeCommandQueueDestroy
CommandQueueDone(op, result) ==
  /\ Live /\ FreeThread
  /\ Return(IF result = ZE_RESULT_SUCCESS
            THEN ProcessInstances(Collector, timer_frequency_)
            ELSE Collector,
            op, nullptr, result = ZE_RESULT_SUCCESS)
  /\ UNCHANGED <<tracer_, timer_frequency_, instance_data, zeCommandList,
                 launches>>

OnExitCommandQueueSynchronize(result) ==
  CommandQueueDone("OnExitCommandQueueSynchronize", result)

OnExitCommandQueueDestroy(result) ==
  CommandQueueDone("OnExitCommandQueueDestroy", result)

\* LzCollector::~LzCollector: DisableTracing, then delete collector
DisableTracing ==
  /\ Live /\ Calls = {}
  /\ tracer_' = "disabled"
  /\ last' = Hook("DisableTracing", nullptr, TRUE, 0)
  /\ Commit(Collector)
  /\ UNCHANGED <<timer_frequency_, instance_data, zeCommandList, launches>>

DestroyCollector ==
  /\ tracer_ = "disabled" /\ ~aborted
  /\ tracer_' = "destroyed"
  /\ last' = Hook("DestroyCollector", nullptr, TRUE, 0)
  /\ Commit(Collector)
  /\ UNCHANGED <<timer_frequency_, instance_data, zeCommandList, launches>>

(***************************************************************************)
(* The environment: the traced program's own events and the device.        *)
(***************************************************************************)
\* zeEventCreate by the traced program (no hook)
AppEventCreate ==
  /\ Live /\ FreeThread
  /\ Cardinality(AppEvents) < MaxAppEvents
  /\ FreeEvents(zeEvent) # {}
  /\ zeEvent' = [zeEvent EXCEPT ![Lowest(FreeEvents(zeEvent))] =
                   [st |-> "not_ready", ts |-> NoTicks]]
  /\ last' = NoHook
  /\ UNCHANGED <<tracer_, timer_frequency_, kernel_info_map_,
                 kernel_interval_list_, kernel_instance_list_,
                 command_list_map_, aborted, instance_data, zeCommandList,
                 tracker_events, tracker_pools, launches, removed, resolved,
                 folded, viewvars, toolvars>>

\* the events of the launches under way: a call in progress or an instance
Launched ==
  {instance_data[k].event : k \in {k \in Calls : instance_data[k].instance}}
    \cup {kernel_instance_list_[i].event : i \in 1..Len(kernel_instance_list_)}
    \cup {ts_list_[i].event : i \in 1..Len(ts_list_)}

\* the device completes a launched kernel: it signals the event and leaves
\* the kernel's timestamps
DeviceSignal(event, ticks) ==
  /\ Live
  /\ event \in Launched
  /\ zeEvent[event].st = "not_ready"
  /\ zeEvent' = [zeEvent EXCEPT ![event] = [st |-> "ready", ts |-> ticks]]
  /\ last' = NoHook
  /\ UNCHANGED <<tracer_, timer_frequency_, kernel_info_map_,
                 kernel_interval_list_, kernel_instance_list_,
                 command_list_map_, aborted, instance_data, zeCommandList,
                 tracker_events, tracker_pools, launches, removed, resolved,
                 folded, viewvars, toolvars>>

\* the device is lost: the status query of the event reports an error
DeviceLost(event) ==
  /\ Live
  /\ event \in Launched
  /\ zeEvent[event].st = "not_ready"
  /\ zeEvent' = [zeEvent EXCEPT ![event] = [st |-> "error", ts |-> NoTicks]]
  /\ last' = NoHook
  /\ UNCHANGED <<tracer_, timer_frequency_, kernel_info_map_,
                 kernel_interval_list_, kernel_instance_list_,
                 command_list_map_, aborted, instance_data, zeCommandList,
                 tracker_events, tracker_pools, launches, removed, resolved,
                 folded, viewvars, toolvars>>

(***************************************************************************)
(* ZeKernelCollector::Create has run: the tracer is enabled, nothing is    *)
(* recorded; command lists made before that are unknown to the collector.  *)
(***************************************************************************)
Empty == [x \in {} |-> x]
PriorLists == {{}, {1}}

\* nothing is printed yet and no buffer has been requested
ToolsIdle ==
  /\ cerr = <<>>
  /\ printed = Empty
  /\ cout = <<>>
  /\ heap = [b \in Buffers |-> NoBuffer]
  /\ chrome_log_ = <<>>
  /\ buffer_store_ = <<>>
  /\ kernel_record_store_ = <<>>
  /\ lock_ = nullptr
  /\ pc = [t \in Threads |-> Idle]

Created(lists, frequencies) ==
  /\ tracer_ = "enabled"
  /\ timer_frequency_ \in frequencies
  /\ kernel_info_map_ = Empty
  /\ kernel_interval_list_ = <<>>
  /\ aborted = FALSE
  /\ instance_data = Empty
  /\ zeCommandList \in lists
  /\ tracker_events = {}
  /\ tracker_pools = {}
  /\ removed = 0
  /\ resolved = {}
  /\ folded = <<>>
  /\ last = NoHook
  /\ buffer_ = <<>>
  /\ ts_list_ = <<>>
  /\ view_command_list_map_ = Empty
  /\ hung = FALSE
  /\ wiring = Wired
  /\ ToolsIdle

Init ==
  /\ Created(PriorLists, TimerFrequencies)
  /\ command_list_map_ = Empty
  /\ kernel_instance_list_ = <<>>
  /\ zeEvent = [e \in Events |-> [st |-> "dead", ts |-> NoTicks]]
  /\ launches = 0

Next ==
  \/ \E x \in Contexts, r \in Results : OnExitCommandListCreate(x, r)
  \/ \E x \in Contexts, r \in Results : OnExitCommandListCreateImmediate(x, r)
  \/ \E l \in Lists, r \in Results : OnExitCommandListDestroy(l, r)
  \/ /\ launches < MaxLaunches
     /\ \E k \in Kernels, e \in AppEvents \cup {nullptr},
           l \in zeCommandList \cup {nullptr}, p \in Results :
          OnEnterKernelAppend(k, e, l, p, ZE_RESULT_SUCCESS, nullptr)
  \/ \E call \in Calls, r \in Results : OnExitKernelAppend(call, r)
  \/ \E e \in AppEvents \cup {nullptr} : OnEnterEventDestroy(e)
  \/ \E e \in AppEvents \cup {nullptr} : OnEnterEventHostReset(e)
  \/ \E r \in Results : OnExitCommandQueueSynchronize(r)
  \/ \E r \in Results : OnExitCommandQueueDestroy(r)
  \/ DisableTracing
  \/ DestroyCollector
  \/ AppEventCreate
  \/ \E e \in Events, x \in DeviceTicks : DeviceSignal(e, x)
  \/ \E e \in Events : DeviceLost(e)

Spec == Init /\ [][Next]_vars

(***************************************************************************)
(* A burst: the program has created command list 1, launches kernels on it *)
(* without signal events and synchronizes the queue.                       *)
(***************************************************************************)
InitBurst ==
  /\ Created({{1}}, BurstFrequencies)
  /\ command_list_map_ = (1 :> 1)
  /\ kernel_instance_list_ = <<>>
  /\ zeEvent = [e \in Events |-> [st |-> "dead", ts |-> NoTicks]]
  /\ launches = 0

NextBurst ==
  \/ /\ launches < MaxBurst
     /\ \E k \in BurstKernels :
          OnEnterKernelAppend(k, nullptr, 1, ZE_RESULT_SUCCESS,
                              ZE_RESULT_SUCCESS, nullptr)
  \/ \E call \in Calls : OnExitKernelAppend(call, ZE_RESULT_SUCCESS)
  \/ \E e \in Events, x \in BurstTicks : DeviceSignal(e, x)
  \/ OnExitCommandQueueSynchronize(ZE_RESULT_SUCCESS)

SpecBurst == InitBurst /\ [][NextBurst]_vars

(***************************************************************************)
(* One instance in flight, launched on command list 1 with the program's   *)
(* event 1: the device writes any of the tick pairs, the queue is          *)
(* synchronized and the instance is converted.                             *)
(***************************************************************************)
InitTime ==
  /\ Created({{1}}, TimeFrequencies)
  /\ command_list_map_ = (1 :> 1)
  /\ kernel_instance_list_ =
       <<[name |-> "K1", simd_width |-> 8, event_pool |-> nullptr,
          event |-> 1, command_list |-> 1]>>
  /\ zeEvent = [e \in Events |->
                  IF e = 1 THEN [st |-> "not_ready", ts |-> NoTicks]
                  ELSE [st |-> "dead", ts |-> NoTicks]]
  /\ launches = 1

NextTime ==
  \/ \E x \in TimeTicks : DeviceSignal(1, x)
  \/ OnExitCommandQueueSynchronize(ZE_RESULT_SUCCESS)

SpecTime == InitTime /\ [][NextTime]_vars

(***************************************************************************)
(* pti::ZeKernelViewCollector and its hooks.  A kernel record goes into    *)
(* the view buffer in the pre-hook of a launch; the post-hook appends a    *)
(* timestamp query and keeps its event in ts_list_.  An exception that     *)
(* leaves a hook ends the process, as a failed assertion does.             *)
(***************************************************************************)
\* ZeKernelViewCollector::GetCommandListMetadata: a default (null) entry
\* for a command list that is not in the map
GetCommandListMetadata(map, list) ==
  IF list \in DOMAIN map THEN map[list] ELSE [ctx |-> nullptr, dev |-> nullptr]

\* ZeKernelViewCollector::StoreCommandListMetadata: emplace keeps the entry
\* of a key that is already there
StoreCommandListMetadata(map, list, ctx, dev) ==
  IF list \in DOMAIN map THEN map
  ELSE [l \in DOMAIN map \cup {list} |->
          IF l = list THEN [ctx |-> ctx, dev |-> dev] ELSE map[l]]

\* pti::CreateEvent on the driver objects d = [ev, tevents, tpools]: thrown
\* is TRUE when it throws utils::ze::Err; the pool of a failed event
\* creation stays
ViewCreateEvent(d, context, pool_status, event_status) ==
  IF context = nullptr \/ pool_status # ZE_RESULT_SUCCESS
  THEN [d |-> d, thrown |-> TRUE, event |-> nullptr]
  ELSE LET event_pool == Lowest(FreePools(d.tpools))
           d1 == [d EXCEPT !.tpools = @ \cup {event_pool}]
           event == Lowest(FreeEvents(d.ev))
       IN IF event_status # ZE_RESULT_SUCCESS
          THEN [d |-> d1, thrown |-> TRUE, event |-> nullptr]
          ELSE [d |-> [d1 EXCEPT !.ev[event] =
                                   [st |-> "not_ready", ts |-> NoTicks],
                                 !.tevents = @ \cup {event}],
                thrown |-> FALSE, event |-> event]

Driver == [ev |-> zeEvent, tevents |-> tracker_events,
           tpools |-> tracker_pools]

CommitDriver(d) ==
  /\ zeEvent' = d.ev
  /\ tracker_events' = d.tevents
  /\ tracker_pools' = d.tpools

CanCreate == FreeEvents(zeEvent) # {} /\ FreePools(tracker_pools) # {}

\* ViewBuffer::Insert: the record is copied to the end of the buffer
Insert(buffer, record) == Append(buffer, record)

\* pti::OnEnterCommandListAppendLaunchKernel: *instance_data is the record
\* in the buffer; event is the event the hook itself made
ViewOnEnterCommandListAppendLaunchKernel(kernel_name, signal_event, command_list, pool_status, event_status) ==
  /\ Live /\ FreeThread
  /\ signal_event = nullptr => CanCreate
  /\ LET record == [view_kind |-> PTI_VIEW_DEVICE_GPU_KERNEL,
                    name |-> kernel_name, start_timestamp |-> U64(0),
                    end_timestamp |-> U64(0)]
         metadata == GetCommandListMetadata(view_command_list_map_,
                                            command_list)
         r == IF signal_event = nullptr
              THEN ViewCreateEvent(Driver, metadata.ctx, pool_status,
                                   event_status)
              ELSE [d |-> Driver, thrown |-> FALSE, event |-> signal_event]
     IN /\ signal_event # nullptr =>
             pool_status = ZE_RESULT_SUCCESS /\ event_status = ZE_RESULT_SUCCESS
        /\ CommitDriver(r.d)
        /\ buffer_' = Insert(buffer_, record)
        /\ instance_data' =
             Enter(launches + 1,
                   [command_list |-> command_list, signal_event |-> r.event,
                    instance |-> FALSE,
                    event |-> IF signal_event = nullptr THEN r.event
                              ELSE nullptr,
                    record |-> Len(buffer_) + 1])
  /\ launches' = launches + 1
  /\ last' = Hook("OnEnterCommandListAppendLaunchKernel", command_list,
                  TRUE, 0)
  /\ UNCHANGED <<tracer_, aborted, zeCommandList, ts_list_,
                 view_command_list_map_, hung, samplevars, toolvars>>

\* pti::OnExitCommandListAppendLaunchKernel: status is the result of the
\* shared memory allocation and of the event creation it makes
ViewOnExitCommandListAppendLaunchKernel(call, result, status) ==
  /\ Live /\ call \in Calls
  /\ result = ZE_RESULT_SUCCESS => CanCreate
  /\ LET d == instance_data[call]
         metadata == GetCommandListMetadata(view_command_list_map_,
                                            d.command_list)
         r == ViewCreateEvent(Driver, metadata.ctx, status, status)
     IN IF result # ZE_RESULT_SUCCESS \/ metadata.dev = nullptr
        THEN /\ status = ZE_RESULT_SUCCESS
             /\ UNCHANGED <<zeEvent, tracker_events, tracker_pools, ts_list_,
                            aborted>>
        ELSE /\ CommitDriver(r.d)
             /\ aborted' = r.thrown
             /\ ts_list_' = IF r.thrown THEN ts_list_
                            ELSE Append(ts_list_, [event |-> r.event])
  /\ last' = Hook("OnExitCommandListAppendLaunchKernel",
                  instance_data[call].event, result = ZE_RESULT_SUCCESS, 0)
  /\ instance_data' = Leave(call)
  /\ UNCHANGED <<tracer_, zeCommandList, launches, buffer_,
                 view_command_list_map_, hung, samplevars, toolvars>>

\* pti::OnExitCommandListCreate / OnExitCommandListCreateImmediate; the
\* program has one device, of handle 1
ViewOnExitCommandListCreate(context, result) ==
  /\ Live /\ FreeThread
  /\ IF result = ZE_RESULT_SUCCESS
     THEN /\ Lists \ zeCommandList # {}
          /\ LET command_list == Lowest(Lists \ zeCommandList)
             IN /\ zeCommandList' = zeCommandList \cup {command_list}
                /\ view_command_list_map_' =
                     StoreCommandListMetadata(view_command_list_map_,
                                              command_list, context, 1)
                /\ last' = Hook("OnExitCommandListCreate", command_list,
                                TRUE, 0)
     ELSE /\ last' = Hook("OnExitCommandListCreate", nullptr, FALSE, 0)
          /\ UNCHANGED <<zeCommandList, view_command_list_map_>>
  /\ UNCHANGED <<tracer_, aborted, instance_data, zeEvent, tracker_events,
                 tracker_pools, launches, buffer_, ts_list_, hung,
                 samplevars, toolvars>>

\* pti::OnExitCommandListDestroy: it prints its name
ViewOnExitCommandListDestroy(command_list, result) ==
  /\ Live /\ FreeThread
  /\ command_list \in zeCommandList
  /\ zeCommandList' = IF result = ZE_RESULT_SUCCESS
                      THEN zeCommandList \ {command_list} ELSE zeCommandList
  /\ last' = Hook("OnExitCommandListDestroy", command_list,
                  result = ZE_RESULT_SUCCESS, 0)
  /\ UNCHANGED <<tracer_, aborted, instance_data, zeEvent, tracker_events,
                 tracker_pools, launches, viewvars, samplevars, toolvars>>

\* the loop of pti::OnExitCommandQueueSynchronize over ts_list_.  After
\* ev_list.erase(ev_list_it) the iterator is used again although erase has
\* invalidated it: it either still points at the same place of the vector
\* ("reused") or its use is trapped ("trapped").  A status that is neither
\* not-ready nor success leaves the iterator where it is, for ever.
EraseOutcomes == {"reused", "trapped"}

RECURSIVE ViewPoll(_, _, _, _)
ViewPoll(ev_list, ev, it, outcome) ==
  IF it > Len(ev_list)
  THEN [ev_list |-> ev_list, aborted |-> FALSE, hung |-> FALSE]
  ELSE
    LET status == zeEventQueryStatus(ev, ev_list[it].event)
    IN IF status = ZE_RESULT_NOT_READY
       THEN ViewPoll(ev_list, ev, it + 1, outcome)
       ELSE IF status = ZE_RESULT_SUCCESS
       THEN IF outcome = "trapped"
            THEN [ev_list |-> Erase(ev_list, it), aborted |-> TRUE,
                  hung |-> FALSE]
            ELSE ViewPoll(Erase(ev_list, it), ev, it, outcome)
       ELSE [ev_list |-> ev_list, aborted |-> FALSE, hung |-> TRUE]

\* pti::OnExitCommandQueueSynchronize
ViewOnExitCommandQueueSynchronize(result, outcome) ==
  /\ Live /\ FreeThread
  /\ LET r == IF result = ZE_RESULT_SUCCESS
              THEN ViewPoll(ts_list_, zeEvent, 1, outcome)
              ELSE [ev_list |-> ts_list_, aborted |-> FALSE, hung |-> FALSE]
     IN /\ ts_list_' = r.ev_list
        /\ aborted' = r.aborted
        /\ hung' = r.hung
        /\ last' = Hook("OnExitCommandQueueSynchronize", nullptr,
                        result = ZE_RESULT_SUCCESS,
                        Len(ts_list_) - Len(r.ev_list))
  /\ UNCHANGED <<tracer_, instance_data, zeEvent, zeCommandList,
                 tracker_events, tracker_pools, launches, buffer_,
                 view_command_list_map_, samplevars, toolvars>>

\* ViewBuffer::GetBuffer and ViewBuffer::GetRecordsEnd, as offsets into
\* buffer_memory_: the records lie one after the other from the start
GetBuffer(buffer) == 0
GetRecordsEnd(buffer) == Len(buffer) * kBiggestRecordSize

\* the record that lies at an offset of the buffer
RecordAt(buffer, offset) == buffer[(offset \div kBiggestRecordSize) + 1]

\* a walk that reports the records from the newest to the oldest
RECURSIVE FoundKernelsNewestFirst(_, _)
FoundKernelsNewestFirst(buffer, current_record) ==
  IF current_record = GetRecordsEnd(buffer) THEN <<>>
  ELSE FoundKernelsNewestFirst(buffer, current_record + kBiggestRecordSize)
       \o <<RecordAt(buffer, current_record)>>

\* the loop of ~ZeKernelViewCollector from current_record on: the kernel
\* records it finds
RECURSIVE FoundKernels(_, _)
FoundKernels(buffer, current_record) ==
  IF current_record = GetRecordsEnd(buffer) THEN <<>>
  ELSE (IF RecordAt(buffer, current_record).view_kind
             = PTI_VIEW_DEVICE_GPU_KERNEL
        THEN <<RecordAt(buffer, current_record)>> ELSE <<>>)
       \o FoundKernels(buffer, current_record + kBiggestRecordSize)

\* LzCollector::~LzCollector deletes the collector:
\* ZeKernelViewCollector::~ZeKernelViewCollector stops the tracer and prints
\* the kernel records of the buffer
ViewDestroyCollector ==
  /\ Live /\ Calls = {}
  /\ tracer_' = "destroyed"
  /\ cout' = FoundKernels(buffer_, GetBuffer(buffer_))
  /\ last' = Hook("~ZeKernelViewCollector", nullptr, TRUE, 0)
  /\ UNCHANGED <<aborted, instance_data, zeEvent, zeCommandList,
                 tracker_events, tracker_pools, launches, viewvars,
                 samplevars, printvars, consumervars, threadvars,
                 wiring>>

\* LzCollector::LzCollector has run: the collector is made and started
InitView ==
  /\ Created({{}}, TimerFrequencies)
  /\ command_list_map_ = Empty
  /\ kernel_instance_list_ = <<>>
  /\ zeEvent = [e \in Events |-> [st |-> "dead", ts |-> NoTicks]]
  /\ launches = 0

NextView ==
  \/ \E x \in Contexts, r \in Results : ViewOnExitCommandListCreate(x, r)
  \/ \E l \in Lists, r \in Results : ViewOnExitCommandListDestroy(l, r)
  \/ /\ launches < MaxBurst
     /\ \E k \in Names, e \in AppEvents \cup {nullptr},
           l \in zeCommandList, p \in Results, q \in Results :
          ViewOnEnterCommandListAppendLaunchKernel(k, e, l, p, q)
  \/ \E call \in Calls, r \in Results, s \in Results :
       ViewOnExitCommandListAppendLaunchKernel(call, r, s)
  \/ \E r \in Results, o \in EraseOutcomes :
       ViewOnExitCommandQueueSynchronize(r, o)
  \/ ViewDestroyCollector
  \/ AppEventCreate
  \/ \E e \in Events, x \in ViewTicks : DeviceSignal(e, x)
  \/ \E e \in Events : DeviceLost(e)

SpecView == InitView /\ [][NextView]_vars

(***************************************************************************)
(* The report.  LzCollector::PrintResults writes the aggregate of the      *)
(* collector; ZeKernelCollector::PrintKernelsTable is a static function of *)
(* any ZeKernelInfoMap.                                                    *)
(***************************************************************************)
PrintNames == {"K1", "K2", "K3"}

\* std::string::operator> on the names
NameRank == ("K1" :> 1) @@ ("K2" :> 2) @@ ("K3" :> 3)

PrintTimes == {0, 10, 20}
PrintCounts == {1, 2}

\* an entry AddKernelInfo can have left: call_count calls, total_time in all
Entry(total_time, call_count) ==
  [total_time |-> U64(total_time),
   min_time |-> U64(total_time \div call_count),
   max_time |-> U64(total_time - (call_count - 1) * (total_time \div call_count)),
   call_count |-> call_count, simd_width |-> 8]

Entries == {Entry(t, n) : t \in PrintTimes, n \in PrintCounts}

InfoMaps == UNION {[names -> Entries] : names \in SUBSET PrintNames}

\* ZeKernelInfo::operator> with the bug of preferring the lower call_count
GreaterLowCalls(l, r) ==
  IF l.total_time # r.total_time THEN Less(r.total_time, l.total_time)
  ELSE l.call_count < r.call_count

\* ZeKernelInfo::operator>
Greater(l, r) ==
  IF l.total_time # r.total_time THEN Less(r.total_time, l.total_time)
  ELSE l.call_count > r.call_count

\* ZeKernelInfo::operator!=
NotEqual(l, r) ==
  IF l.total_time = r.total_time THEN l.call_count # r.call_count ELSE TRUE

\* utils::Comparator on pairs (name, info): left goes before right
Comparator(left, right) ==
  IF NotEqual(left.second, right.second)
  THEN Greater(left.second, right.second)
  ELSE NameRank[left.first] > NameRank[right.first]

\* std::set::insert: value goes before the first element it precedes; a
\* value equivalent to an element is not inserted
RECURSIVE SetInsert(_, _)
SetInsert(sorted_list, value) ==
  IF sorted_list = <<>> THEN <<value>>
  ELSE IF Comparator(value, Head(sorted_list))
  THEN <<value>> \o sorted_list
  ELSE IF ~Comparator(Head(sorted_list), value) THEN sorted_list
  ELSE <<Head(sorted_list)>> \o SetInsert(Tail(sorted_list), value)

\* the std::set built from the range of the map, which is in key order
RECURSIVE SortedList(_, _)
SortedList(map, rank) ==
  IF rank > Cardinality(PrintNames) THEN <<>>
  ELSE LET name == CHOOSE n \in PrintNames : NameRank[n] = rank
       IN IF name \in DOMAIN map
          THEN SetInsert(SortedList(map, rank + 1),
                         [first |-> name, second |-> map[name]])
          ELSE SortedList(map, rank + 1)

RECURSIVE TotalDuration(_)
TotalDuration(list) ==
  IF list = <<>> THEN U64(0)
  ELSE Add(Head(list).second.total_time, TotalDuration(Tail(list)))

\* the lines of the table; the percentage is 100.0f * duration /
\* total_duration and is computed for every line
Rows(list) ==
  [i \in 1..Len(list) |->
     [function |-> list[i].first,
      call_count |-> list[i].second.call_count,
      simd_width |-> list[i].second.simd_width,
      duration |-> list[i].second.total_time,
      min_duration |-> list[i].second.min_time,
      max_duration |-> list[i].second.max_time]]

\* what PrintKernelsTable writes for the sorted list
TableOf(list) == IF TotalDuration(list) = U64(0) THEN <<>> ELSE Rows(list)

\* ZeKernelCollector::PrintKernelsTable
PrintKernelsTable(kernel_info_map) ==
  /\ cerr' = TableOf(SortedList(kernel_info_map, 1))
  /\ printed' = kernel_info_map
  /\ last' = Hook("PrintKernelsTable", nullptr, TRUE, 0)
  /\ UNCHANGED <<tracer_, aborted, instance_data, zeEvent, zeCommandList,
                 tracker_events, tracker_pools, launches, viewvars,
                 samplevars, cout, consumervars, threadvars, wiring>>

\* LzCollector::PrintResults: nothing for an empty map or a total of 0
PrintResults ==
  /\ tracer_ = "enabled" /\ ~aborted
  /\ kernel_info_map_ # Empty
  /\ TotalDuration(SortedList(kernel_info_map_, 1)) # U64(0)
  /\ PrintKernelsTable(kernel_info_map_)

\* the calls AddKernelInfo had for the entries of the names from rank on:
\* call_count - 1 of min_time and one of max_time each
RECURSIVE FoldedOf(_, _)
FoldedOf(map, rank) ==
  IF rank > Cardinality(PrintNames) THEN <<>>
  ELSE LET name == CHOOSE n \in PrintNames : NameRank[n] = rank
       IN IF name \in DOMAIN map
          THEN [i \in 1..map[name].call_count |->
                  [name |-> name,
                   time |-> IF i = 1 THEN map[name].max_time
                            ELSE map[name].min_time,
                   simd_width |-> map[name].simd_width]]
               \o FoldedOf(map, rank + 1)
          ELSE FoldedOf(map, rank + 1)

\* the collector after the kernels of a run have been resolved
InitPrint ==
  /\ tracer_ = "enabled"
  /\ timer_frequency_ \in TimerFrequencies
  /\ kernel_info_map_ \in InfoMaps
  /\ \A n \in DOMAIN kernel_info_map_ : kernel_info_map_[n].total_time # U64(0)
  /\ folded = FoldedOf(kernel_info_map_, 1)
  /\ kernel_interval_list_ =
       [i \in 1..Len(folded) |->
          [name |-> folded[i].name, start |-> U64(100),
           end |-> Add(U64(100), folded[i].time)]]
  /\ removed = Len(folded)
  /\ resolved = {}
  /\ kernel_instance_list_ = <<>>
  /\ command_list_map_ = Empty
  /\ aborted = FALSE
  /\ instance_data = Empty
  /\ zeCommandList = {}
  /\ zeEvent = [e \in Events |-> [st |-> "dead", ts |-> NoTicks]]
  /\ tracker_events = {}
  /\ tracker_pools = {}
  /\ launches = 0
  /\ last = NoHook
  /\ buffer_ = <<>>
  /\ ts_list_ = <<>>
  /\ view_command_list_map_ = Empty
  /\ hung = FALSE
  /\ wiring = Wired
  /\ ToolsIdle

\* main writes the report once, when the run is over
NextPrint ==
  \/ /\ last = NoHook
     /\ \E kernel_info_map \in InfoMaps : PrintKernelsTable(kernel_info_map)
  \/ /\ last = NoHook
     /\ PrintResults

SpecPrint == InitPrint /\ [][NextPrint]_vars

(***************************************************************************)
(* The consumers of the view buffers: PtiSettings with BufferRequested and *)
(* BufferReturned (ptitrace), and BufferStore with OnRequestBuffer and     *)
(* OnReceivedBuffer.  The library hands a consumer's buffer back with the  *)
(* records it has written and the length that is valid.                    *)
(***************************************************************************)
PTI_SUCCESS == "PTI_SUCCESS"
PTI_STATUS_END_OF_BUFFER == "PTI_STATUS_END_OF_BUFFER"
PTI_ERROR_BAD_ARGUMENT == "PTI_ERROR_BAD_ARGUMENT"

\* the tags the library can have written: the kinds, and one that is no kind
UnknownKind == PTI_VIEW_DEVICE_GPU_MEM_FILL + 1
RecordKinds == {PTI_VIEW_INVALID, PTI_VIEW_DEVICE_GPU_KERNEL, UnknownKind}

\* the records the library has written: the i-th has _kernel_id i
Encoded(kinds) ==
  [i \in 1..Len(kinds) |-> [view_kind |-> kinds[i], kernel_id |-> i]]
KindSeqs == UNION {[1..n -> RecordKinds] : n \in 0..MaxRecords}
Contents == {Encoded(kinds) : kinds \in KindSeqs}

\* the valid lengths a buffer of these records can come back with: the
\* records it holds, or these with the last one cut short by one byte
ValidSizes(data) ==
  {Len(data) * kBiggestRecordSize}
    \cup {k * kBiggestRecordSize - 1 : k \in {Len(data)} \ {0}}

\* the record at an address of a buffer
RecordOf(buffer, data, ptr) == data[((ptr - buffer) \div kBiggestRecordSize) + 1]

\* whether the decoder takes a tag for a record kind; lenient says whether
\* it hands out a record tagged PTI_VIEW_INVALID
Recognised(view_kind, lenient) ==
  \/ view_kind \in {PTI_VIEW_DEVICE_GPU_KERNEL, PTI_VIEW_DEVICE_GPU_MEM_COPY}
  \/ view_kind = PTI_VIEW_INVALID /\ lenient

\* the address ptiViewGetNextRecord looks at
NextRecord(buffer, ptr) ==
  IF ptr = nullptr THEN buffer ELSE ptr + kBiggestRecordSize

\* ptiViewGetNextRecord(buffer, valid_size, &ptr)
ptiViewGetNextRecord(buffer, valid_size, ptr, data, lenient) ==
  IF NextRecord(buffer, ptr) >= buffer + valid_size
  THEN [status |-> PTI_STATUS_END_OF_BUFFER, ptr |-> ptr]
  ELSE IF \/ NextRecord(buffer, ptr) + kBiggestRecordSize
               > buffer + valid_size
          \/ ~Recognised(RecordOf(buffer, data,
                                  NextRecord(buffer, ptr)).view_kind,
                         lenient)
  THEN [status |-> PTI_ERROR_BAD_ARGUMENT, ptr |-> ptr]
  ELSE [status |-> PTI_SUCCESS, ptr |-> NextRecord(buffer, ptr)]

\* a buffer of the heap as a consumer gets it, comes back and is deleted
Allocated(h, buffer, owner) ==
  [h EXCEPT ![buffer] = [NoBuffer EXCEPT !.st = "requested",
                                         !.owner = owner]]
Returned(h, buffer, data, valid_size) ==
  [h EXCEPT ![buffer].st = "returned", ![buffer].data = data,
            ![buffer].valid = valid_size]
\* every buffer, outstanding or not
AnyBuffers == Buffers

\* the buffers operator new can hand out
FreshBuffers == {b \in Buffers : heap[b].st = "unallocated"}
Requested(owner) ==
  {b \in Buffers : heap[b].st = "requested" /\ heap[b].owner = owner}
Owners == {heap[b].owner : b \in Buffers} \ {"none"}

(***************************************************************************)
(* ptitrace                                                                *)
(***************************************************************************)
\* the trace event PtiSettings::AddRecord makes of a record
TraceObj(rec) == [ph |-> "X", id |-> rec.kernel_id]

\* PtiSettings::AddRecord
AddRecord(chrome_log, view, base) ==
  IF view = PTI_VIEW_INVALID
  THEN [chrome_log |-> chrome_log, thrown |-> TRUE]
  ELSE IF view \in {PTI_VIEW_DEVICE_GPU_KERNEL, PTI_VIEW_DEVICE_GPU_MEM_COPY}
  THEN [chrome_log |-> Append(chrome_log, TraceObj(base)), thrown |-> FALSE]
  ELSE [chrome_log |-> chrome_log, thrown |-> FALSE]

\* PtiSettings::DeleteBuffer
DeleteBuffer(h, buffer) ==
  [h EXCEPT ![buffer].st = "deleted", ![buffer].data = <<>>,
            ![buffer].deletes = @ + 1]

\* the loop of BufferReturned from ptr on; status is the one it ended with
RECURSIVE Drain(_, _, _, _, _, _)
DrainStep(buffer, valid_buf_size, next, data, lenient, added) ==
  IF added.thrown
  THEN [chrome_log |-> added.chrome_log, thrown |-> TRUE,
        status |-> PTI_SUCCESS]
  ELSE Drain(buffer, valid_buf_size, next.ptr, data, lenient,
             added.chrome_log)

DrainNext(buffer, valid_buf_size, next, data, lenient, chrome_log) ==
  IF next.status # PTI_SUCCESS
  THEN [chrome_log |-> chrome_log, thrown |-> FALSE, status |-> next.status]
  ELSE DrainStep(buffer, valid_buf_size, next, data, lenient,
                 AddRecord(chrome_log,
                           RecordOf(buffer, data, next.ptr).view_kind,
                           RecordOf(buffer, data, next.ptr)))

Drain(buffer, valid_buf_size, ptr, data, lenient, chrome_log) ==
  DrainNext(buffer, valid_buf_size,
            ptiViewGetNextRecord(buffer, valid_buf_size, ptr, data, lenient),
            data, lenient, chrome_log)

\* BufferRequested: PtiSettings::CreateBuffer aborts when operator new fails;
\* last holds *buffer and *buf_size
BufferRequested(bad_alloc) ==
  /\ ~aborted
  /\ Owners \subseteq {"PtiSettings"}
  /\ FreshBuffers # {}
  /\ IF bad_alloc
     THEN aborted' = TRUE /\ heap' = heap
     ELSE /\ heap' = Allocated(heap, Lowest(FreshBuffers), "PtiSettings")
          /\ aborted' = FALSE
  /\ last' = Hook("BufferRequested",
                  IF bad_alloc THEN nullptr ELSE Lowest(FreshBuffers),
                  ~bad_alloc, IF bad_alloc THEN 0 ELSE kDefaultBufSize)
  /\ UNCHANGED <<tracer_, instance_data, zeEvent, zeCommandList,
                 tracker_events, tracker_pools, launches, viewvars,
                 samplevars, printvars, cout, chrome_log_, buffer_store_,
                 kernel_record_store_, threadvars, wiring>>

\* what BufferReturned leaves of a buffer it has drained
Drained(buffer, data, valid_buf_size, d) ==
  /\ chrome_log_' = d.chrome_log
  /\ aborted' = d.thrown
  /\ heap' = IF d.thrown
             THEN Returned(heap, buffer, data, valid_buf_size)
             ELSE DeleteBuffer(Returned(heap, buffer, data, valid_buf_size),
                               buffer)
  /\ last' = Hook("BufferReturned", buffer,
                  d.status = PTI_STATUS_END_OF_BUFFER,
                  Len(d.chrome_log) - Len(chrome_log_))

\* BufferReturned(buffer, buf_size, valid_buf_size); data is what the
\* library wrote into the buffer.  An exception that leaves it ends the
\* process.
BufferReturned(buffer, buf_size, valid_buf_size, data, lenient) ==
  /\ ~aborted
  /\ buffer \in Requested("PtiSettings")
  /\ IF valid_buf_size = 0 \/ buf_size = 0
     THEN /\ heap' = IF valid_buf_size # 0
                     THEN DeleteBuffer(Returned(heap, buffer, data,
                                                valid_buf_size), buffer)
                     ELSE Returned(heap, buffer, data, valid_buf_size)
          /\ last' = Hook("BufferReturned", buffer, TRUE, 0)
          /\ UNCHANGED <<chrome_log_, aborted>>
     ELSE Drained(buffer, data, valid_buf_size,
                  Drain(buffer, valid_buf_size, nullptr, data, lenient,
                        chrome_log_))
  /\ UNCHANGED <<tracer_, instance_data, zeEvent, zeCommandList,
                 tracker_events, tracker_pools, launches, viewvars,
                 samplevars, printvars, cout, buffer_store_,
                 kernel_record_store_, threadvars, wiring>>

(***************************************************************************)
(* BufferStore                                                             *)
(***************************************************************************)
\* the loop of BufferStore::ParseBuffer from ptr on: the pointers to the
\* kernel records are kept, the buffer stays in buffer_store_
RECURSIVE Parse(_, _, _, _, _, _)
ParseNext(buf, valid_size, next, data, lenient, store) ==
  IF next.status # PTI_SUCCESS
  THEN [store |-> store, status |-> next.status]
  ELSE Parse(buf, valid_size, next.ptr, data, lenient,
             IF RecordOf(buf, data, next.ptr).view_kind
                  = PTI_VIEW_DEVICE_GPU_KERNEL
             THEN Append(store, next.ptr) ELSE store)

Parse(buf, valid_size, ptr, data, lenient, store) ==
  ParseNext(buf, valid_size,
            ptiViewGetNextRecord(buf, valid_size, ptr, data, lenient),
            data, lenient, store)

\* OnRequestBuffer: BufferStore::RequestBuffer; last holds *buf_out and
\* *size_out
OnRequestBuffer(bad_alloc) ==
  /\ ~aborted
  /\ Owners \subseteq {"BufferStore"}
  /\ FreshBuffers # {}
  /\ IF bad_alloc
     THEN aborted' = TRUE /\ UNCHANGED <<heap, buffer_store_>>
     ELSE /\ heap' = Allocated(heap, Lowest(FreshBuffers), "BufferStore")
          /\ buffer_store_' = Append(buffer_store_, Lowest(FreshBuffers))
          /\ aborted' = FALSE
  /\ last' = Hook("OnRequestBuffer",
                  IF bad_alloc THEN nullptr ELSE Lowest(FreshBuffers),
                  ~bad_alloc, IF bad_alloc THEN 0 ELSE kDefaultBufSize)
  /\ UNCHANGED <<tracer_, instance_data, zeEvent, zeCommandList,
                 tracker_events, tracker_pools, launches, viewvars,
                 samplevars, printvars, cout, chrome_log_,
                 kernel_record_store_, threadvars, wiring>>

Parsed(buf, p) ==
  /\ kernel_record_store_' = p.store
  /\ last' = Hook("OnReceivedBuffer", buf,
                  p.status = PTI_STATUS_END_OF_BUFFER,
                  Len(p.store) - Len(kernel_record_store_))

\* OnReceivedBuffer: BufferStore::ParseBuffer(buf, buf_size, valid_size)
OnReceivedBuffer(buf, buf_size, valid_size, data, lenient) ==
  /\ ~aborted
  /\ buf \in Requested("BufferStore")
  /\ heap' = Returned(heap, buf, data, valid_size)
  /\ IF valid_size = 0 \/ buf_size = 0
     THEN /\ last' = Hook("OnReceivedBuffer", buf, TRUE, 0)
          /\ UNCHANGED kernel_record_store_
     ELSE Parsed(buf, Parse(buf, valid_size, nullptr, data, lenient,
                            kernel_record_store_))
  /\ UNCHANGED <<tracer_, aborted, instance_data, zeEvent, zeCommandList,
                 tracker_events, tracker_pools, launches, viewvars,
                 samplevars, printvars, cout, chrome_log_, buffer_store_,
                 threadvars, wiring>>

(***************************************************************************)
(* A run of one of the three programs: the program with the view           *)
(* collector, ptitrace, or the program with BufferStore.                   *)
(***************************************************************************)
ViewRuns == Owners = {}
ConsumerRuns == zeCommandList = {} /\ tracer_ = "enabled"

InitBuffer == InitView

NextBuffer ==
  \/ /\ ViewRuns
     /\ \E x \in Contexts, r \in Results : ViewOnExitCommandListCreate(x, r)
  \/ /\ ViewRuns /\ launches < MaxRecords
     /\ \E k \in Names, l \in zeCommandList, p \in Results, q \in Results :
          ViewOnEnterCommandListAppendLaunchKernel(k, nullptr, l, p, q)
  \/ /\ ViewRuns
     /\ \E call \in Calls, r \in Results, s \in Results :
          ViewOnExitCommandListAppendLaunchKernel(call, r, s)
  \/ ViewRuns /\ ViewDestroyCollector
  \/ /\ ConsumerRuns
     /\ \E bad_alloc \in BOOLEAN : BufferRequested(bad_alloc)
  \/ \E b \in Buffers, data \in Contents, lenient \in BOOLEAN :
       \E v \in ValidSizes(data) :
         BufferReturned(b, kDefaultBufSize, v, data, lenient)
  \/ /\ ConsumerRuns
     /\ \E bad_alloc \in BOOLEAN : OnRequestBuffer(bad_alloc)
  \/ \E b \in Buffers, data \in Contents, lenient \in BOOLEAN :
       \E v \in ValidSizes(data) :
         OnReceivedBuffer(b, kDefaultBufSize, v, data, lenient)

SpecBuffer == InitBuffer /\ [][NextBuffer]_vars
(***************************************************************************)
(* Threads in the member functions that use the shared data members.  A    *)
(* member function of ZeKernelCollector makes a std::lock_guard on lock_   *)
(* before it touches kernel_instance_list_ or command_list_map_; the       *)
(* member functions of ZeKernelViewCollector, BufferStore and PtiSettings  *)
(* make none.                                                              *)
(***************************************************************************)
Region(program, op, on, locked) ==
  [program |-> program, op |-> op, on |-> on, locked |-> locked]

Regions ==
  {Region("ZeKernelCollector", "AddKernelInstance",
          "kernel_instance_list_", TRUE),
   Region("ZeKernelCollector", "ProcessInstance",
          "kernel_instance_list_", TRUE),
   Region("ZeKernelCollector", "ProcessInstances",
          "kernel_instance_list_", TRUE),
   Region("ZeKernelCollector", "AddCommandList", "command_list_map_", TRUE),
   Region("ZeKernelCollector", "RemoveCommandList", "command_list_map_",
          TRUE),
   Region("ZeKernelCollector", "GetCommandListContext", "command_list_map_",
          TRUE),
   Region("ZeKernelViewCollector", "StoreCommandListMetadata",
          "view_command_list_map_", FALSE),
   Region("ZeKernelViewCollector", "GetCommandListMetadata",
          "view_command_list_map_", FALSE),
   Region("ZeKernelViewCollector", "OnExitCommandListAppendLaunchKernel",
          "ts_list_", FALSE),
   Region("ZeKernelViewCollector", "OnExitCommandQueueSynchronize",
          "ts_list_", FALSE),
   Region("BufferStore", "RequestBuffer", "buffer_store_", FALSE),
   Region("BufferStore", "ParseBuffer", "kernel_record_store_", FALSE),
   Region("PtiSettings", "AddRecord", "chrome_log_", FALSE)}

RegionOf(op) == CHOOSE r \in Regions : r.op = op
Busy == {t \in Threads : pc[t].at # "idle"}

\* a thread calls a member function of the program that runs: it comes to
\* the lock_guard if the function has one, to the data member if not
CallMember(t, r) ==
  /\ ~aborted
  /\ pc[t] = Idle
  /\ \A u \in Busy : RegionOf(pc[u].op).program = r.program
  /\ pc' = [pc EXCEPT ![t] = [op |-> r.op, on |-> r.on,
                              at |-> IF r.locked THEN "lock_guard"
                                     ELSE "inside"]]
  /\ UNCHANGED <<lock_, hookvars, samplevars, viewvars, printvars, cout,
                 consumervars, wiring>>

\* std::lock_guard<std::mutex> lock(lock_): the thread goes on when no
\* other thread holds lock_
LockGuard(t) ==
  /\ pc[t].at = "lock_guard"
  /\ lock_ = nullptr
  /\ lock_' = t
  /\ pc' = [pc EXCEPT ![t].at = "inside"]
  /\ UNCHANGED <<hookvars, samplevars, viewvars, printvars, cout,
                 consumervars, wiring>>

\* the member function returns; the lock_guard goes out of scope
ReturnMember(t) ==
  /\ pc[t].at = "inside"
  /\ pc' = [pc EXCEPT ![t] = Idle]
  /\ lock_' = IF lock_ = t THEN nullptr ELSE lock_
  /\ UNCHANGED <<hookvars, samplevars, viewvars, printvars, cout,
                 consumervars, wiring>>

InitRace == InitView

NextRace ==
  \/ \E t \in Threads, r \in Regions : CallMember(t, r)
  \/ \E t \in Threads : LockGuard(t)
  \/ \E t \in Threads : ReturnMember(t)

SpecRace == InitRace /\ [][NextRace]_vars
(***************************************************************************)
(* Runs of ZeKernelCollector in which zeEventCreate can fail too.  What    *)
(* instance->event then holds was never written: it is any handle or null. *)
(***************************************************************************)
StaleHandles == Events \cup {nullptr}

InitEvent == Init

NextEvent ==
  \/ \E x \in Contexts, r \in Results : OnExitCommandListCreate(x, r)
  \/ /\ launches < MaxLaunches
     /\ \E k \in Kernels, l \in zeCommandList, p \in Results, q \in Results,
           stale \in StaleHandles :
          OnEnterKernelAppend(k, nullptr, l, p, q, stale)
  \/ \E call \in Calls, r \in Results : OnExitKernelAppend(call, r)
  \/ \E r \in Results : OnExitCommandQueueSynchronize(r)
  \/ AppEventCreate
  \/ \E e \in Events, x \in ViewTicks : DeviceSignal(e, x)

SpecEvent == InitEvent /\ [][NextEvent]_vars
(***************************************************************************)
(* The statements a thread executes inside the member functions of         *)
(* ZeKernelCollector that take lock_, one statement a step.  The contents  *)
(* of kernel_instance_list_ and the results of the driver calls are left   *)
(* open: a loop test or a status can come out either way.                  *)
(***************************************************************************)
LockedMembers == {"AddKernelInstance", "ProcessInstance", "ProcessInstances"}

\* ProcessInstance(const ZeKernelInstance&), statement by statement
ProcessInstanceBody ==
  <<"zeEventQueryStatus", "zeEventQueryKernelTimestamp", "convert",
    "AddKernelInfo", "AddKernelInterval", "zeEventDestroy",
    "zeEventPoolDestroy">>

\* the statement after the lock_guard
FirstStatement(op) ==
  IF op = "AddKernelInstance" THEN "push_back"
  ELSE IF op = "ProcessInstance" THEN "find"
  ELSE "begin"

\* the statements that can follow a statement of a member function;
\* "return" ends the function
After(op, at) ==
  IF at = "push_back" THEN {"return"}
  ELSE IF at = "find" THEN {ProcessInstanceBody[1], "return"}
  ELSE IF at = "begin" \/ at = "++it" THEN {"end?"}
  ELSE IF at = "end?" THEN {"poll", "return"}
  ELSE IF at = "poll" THEN {"++it", ProcessInstanceBody[1]}
  ELSE IF at = "AddKernelInterval"
  THEN {"zeEventDestroy", "erase"}
  ELSE IF at = "zeEventPoolDestroy" THEN {"erase"}
  ELSE IF at = "erase"
  THEN IF op = "ProcessInstance" THEN {"return"} ELSE {"end?"}
  ELSE {ProcessInstanceBody[i + 1] : i \in {i \in 1..6 : ProcessInstanceBody[i] = at}}

\* a thread calls a member function and comes to its lock_guard
CallLocked(t, op) ==
  /\ ~aborted
  /\ pc[t] = Idle
  /\ pc' = [pc EXCEPT ![t] = [op |-> op, on |-> "kernel_instance_list_",
                              at |-> "lock_guard"]]
  /\ UNCHANGED <<lock_, hookvars, samplevars, viewvars, printvars, cout,
                 consumervars, wiring>>

\* const std::lock_guard<std::mutex> lock(lock_)
TakeLock(t) ==
  /\ pc[t].at = "lock_guard"
  /\ lock_ = nullptr
  /\ lock_' = t
  /\ pc' = [pc EXCEPT ![t].at = FirstStatement(pc[t].op)]
  /\ UNCHANGED <<hookvars, samplevars, viewvars, printvars, cout,
                 consumervars, wiring>>

\* the thread executes the statement it is at and comes to the next one
Statement(t, next) ==
  /\ pc[t].at \notin {"idle", "lock_guard"}
  /\ next \in After(pc[t].op, pc[t].at)
  /\ next # "return"
  /\ pc' = [pc EXCEPT ![t].at = next]
  /\ UNCHANGED <<lock_, hookvars, samplevars, viewvars, printvars, cout,
                 consumervars, wiring>>

\* the member function returns and its lock_guard releases lock_
ReturnLocked(t) ==
  /\ pc[t].at \notin {"idle", "lock_guard"}
  /\ "return" \in After(pc[t].op, pc[t].at)
  /\ pc' = [pc EXCEPT ![t] = Idle]
  /\ lock_' = nullptr
  /\ UNCHANGED <<hookvars, samplevars, viewvars, printvars, cout,
                 consumervars, wiring>>

Statements ==
  {"push_back", "find", "begin", "end?", "poll", "++it", "erase"}
    \cup {ProcessInstanceBody[i] : i \in 1..7}

InitLock == InitView

NextLock ==
  \/ \E t \in Threads, op \in LockedMembers : CallLocked(t, op)
  \/ \E t \in Threads : TakeLock(t)
  \/ \E t \in Threads, next \in Statements : Statement(t, next)
  \/ \E t \in Threads : ReturnLocked(t)

SpecLock == InitLock /\ [][NextLock]_vars
(***************************************************************************)
(* The per-call slot *instance_data: the event-pool hooks of               *)
(* ZeKernelCollector next to its kernel-append hooks.  The tracing layer   *)
(* hands every call a slot that holds nullptr.                             *)
(***************************************************************************)
\* *(params->pdesc) of a zeEventPoolCreate call
PoolDescs == {"nullptr", "ZE_EVENT_POOL_FLAG_IPC", "plain"}

\* the slot of a zeEventPoolCreate call: whether it holds profiling_desc
PoolSlot(profiling_desc) ==
  [instance |-> FALSE, profiling_desc |-> profiling_desc]

PoolCalls == {k \in Calls : "profiling_desc" \in DOMAIN instance_data[k]}
KernelCalls == Calls \ PoolCalls

\* OnEnterEventPoolCreate: a descriptor that is there and not for IPC is
\* replaced by a new one, which the slot keeps
OnEnterEventPoolCreate(desc) ==
  /\ Live /\ FreeThread
  /\ launches' = launches + 1
  /\ instance_data' = Enter(launches + 1, PoolSlot(desc = "plain"))
  /\ last' = Hook("OnEnterEventPoolCreate", nullptr, TRUE, 0)
  /\ Commit(Collector)
  /\ UNCHANGED <<tracer_, timer_frequency_, zeCommandList>>

\* OnExitEventPoolCreate: delete desc if the slot holds one; last.n is the
\* number of times it has executed the delete
OnExitEventPoolCreate(call, result) ==
  /\ Live /\ call \in PoolCalls
  /\ instance_data' = Leave(call)
  /\ last' = Hook("OnExitEventPoolCreate", nullptr,
                  result = ZE_RESULT_SUCCESS,
                  Deleted(Collector, instance_data[call].profiling_desc))
  /\ Commit(Collector)
  /\ UNCHANGED <<tracer_, timer_frequency_, zeCommandList, launches>>

InitSlot == Init

NextSlot ==
  \/ \E x \in Contexts : OnExitCommandListCreate(x, ZE_RESULT_SUCCESS)
  \/ AppEventCreate
  \/ /\ launches < MaxBurst
     /\ \E desc \in PoolDescs : OnEnterEventPoolCreate(desc)
  \/ \E call \in PoolCalls, r \in Results : OnExitEventPoolCreate(call, r)
  \/ /\ launches < MaxBurst
     /\ \E k \in Kernels, e \in AppEvents \cup {nullptr},
           l \in zeCommandList \cup {nullptr}, p \in Results :
          OnEnterKernelAppend(k, e, l, p, ZE_RESULT_SUCCESS, nullptr)
  \/ \E call \in KernelCalls, r \in Results : OnExitKernelAppend(call, r)

SpecSlot == InitSlot /\ [][NextSlot]_vars

(***************************************************************************)
(* ZeKernelViewCollector with a program that creates one command list,     *)
(* launches kernels on it without signal events, resets the list and       *)
(* synchronizes the queue.                                                 *)
(***************************************************************************)
\* pti::OnExitCommandListReset: it prints its name (the call to
\* StoreCommandListMetadata in it is commented out)
ViewOnExitCommandListReset(command_list, result) ==
  /\ Live /\ FreeThread
  /\ command_list \in zeCommandList
  /\ last' = Hook("OnExitCommandListReset", command_list,
                  result = ZE_RESULT_SUCCESS, 0)
  /\ UNCHANGED <<tracer_, aborted, instance_data, zeEvent, zeCommandList,
                 tracker_events, tracker_pools, launches, viewvars,
                 samplevars, toolvars>>

NextReset ==
  \/ \E x \in Contexts : ViewOnExitCommandListCreate(x, ZE_RESULT_SUCCESS)
  \/ /\ launches < MaxLaunches
     /\ \E k \in Names, l \in zeCommandList :
          ViewOnEnterCommandListAppendLaunchKernel(k, nullptr, l,
                                  ZE_RESULT_SUCCESS, ZE_RESULT_SUCCESS)
  \/ \E call \in Calls, r \in Results :
       ViewOnExitCommandListAppendLaunchKernel(call, r, ZE_RESULT_SUCCESS)
  \/ \E l \in Lists, r \in Results : ViewOnExitCommandListReset(l, r)
  \/ \E r \in Results, o \in EraseOutcomes :
       ViewOnExitCommandQueueSynchronize(r, o)
  \/ \E e \in Events, x \in ViewTicks : DeviceSignal(e, x)

SpecReset == InitView /\ [][NextReset]_vars

(***************************************************************************)
(* The wiring: ZeKernelCollector::Create with EnableTracing and            *)
(* LzCollector::~LzCollector on thread 1, the constructor and the          *)
(* destructor of ptitrace's TracingLifeTimeTracker on thread 2, one call   *)
(* of the tracing layer or of the view library a step.  A failed           *)
(* PTI_ASSERT and an exception nobody catches end the process.             *)
(***************************************************************************)
PtiResults == {PTI_SUCCESS, PTI_ERROR_BAD_ARGUMENT}

At(op, at) == [op |-> op, on |-> "none", at |-> at]

\* the thread t goes on at next when the call succeeded; the process ends
\* when it failed
Goes(t, ok, next) ==
  /\ aborted' = ~ok
  /\ pc' = IF ok THEN [pc EXCEPT ![t] = next] ELSE pc

WireUnchanged ==
  UNCHANGED <<instance_data, zeEvent, zeCommandList, tracker_events,
              tracker_pools, launches, viewvars, samplevars, printvars, cout,
              consumervars, lock_>>

\* ZeKernelCollector::Create: zelTracerCreate; without a tracer it deletes
\* the collector and returns nullptr, and LzCollector::LzCollector throws
CreateTracer(status) ==
  /\ ~aborted /\ pc[1] = At("ZeKernelCollector::Create", "zelTracerCreate")
  /\ tracer_' = IF status = ZE_RESULT_SUCCESS THEN "disabled" ELSE tracer_
  /\ Goes(1, status = ZE_RESULT_SUCCESS,
          At("EnableTracing", "zelTracerSetPrologues"))
  /\ last' = Hook("zelTracerCreate", nullptr, status = ZE_RESULT_SUCCESS, 0)
  /\ UNCHANGED wiring /\ WireUnchanged

\* an EnableTracing that switches the tracer on with the first table
SetProloguesSwitchesOn(status) ==
  /\ ~aborted /\ pc[1] = At("EnableTracing", "zelTracerSetPrologues")
  /\ wiring' = [wiring EXCEPT !.prologues = @ \/ status = ZE_RESULT_SUCCESS]
  /\ tracer_' = IF status = ZE_RESULT_SUCCESS THEN "enabled" ELSE tracer_
  /\ Goes(1, status = ZE_RESULT_SUCCESS,
          At("EnableTracing", "zelTracerSetEpilogues"))
  /\ last' = Hook("zelTracerSetPrologues", nullptr,
                  status = ZE_RESULT_SUCCESS, 0)
  /\ WireUnchanged

\* EnableTracing: zelTracerSetPrologues(tracer_, &prologue_callbacks)
SetPrologues(status) ==
  /\ ~aborted /\ pc[1] = At("EnableTracing", "zelTracerSetPrologues")
  /\ wiring' = [wiring EXCEPT !.prologues = @ \/ status = ZE_RESULT_SUCCESS]
  /\ Goes(1, status = ZE_RESULT_SUCCESS,
          At("EnableTracing", "zelTracerSetEpilogues"))
  /\ last' = Hook("zelTracerSetPrologues", nullptr,
                  status = ZE_RESULT_SUCCESS, 0)
  /\ UNCHANGED tracer_ /\ WireUnchanged

\* EnableTracing: zelTracerSetEpilogues(tracer_, &epilogue_callbacks)
SetEpilogues(status) ==
  /\ ~aborted /\ pc[1] = At("EnableTracing", "zelTracerSetEpilogues")
  /\ wiring' = [wiring EXCEPT !.epilogues = @ \/ status = ZE_RESULT_SUCCESS]
  /\ Goes(1, status = ZE_RESULT_SUCCESS,
          At("EnableTracing", "zelTracerSetEnabled"))
  /\ last' = Hook("zelTracerSetEpilogues", nullptr,
                  status = ZE_RESULT_SUCCESS, 0)
  /\ UNCHANGED tracer_ /\ WireUnchanged

\* EnableTracing: zelTracerSetEnabled(tracer_, true); Create returns
SetEnabled(status) ==
  /\ ~aborted /\ pc[1] = At("EnableTracing", "zelTracerSetEnabled")
  /\ tracer_' = IF status = ZE_RESULT_SUCCESS THEN "enabled" ELSE tracer_
  /\ Goes(1, status = ZE_RESULT_SUCCESS, Idle)
  /\ last' = Hook("zelTracerSetEnabled", nullptr,
                  status = ZE_RESULT_SUCCESS, 0)
  /\ UNCHANGED wiring /\ WireUnchanged

\* the view EnableViews turns on next and the one DisableViews turns off
\* next: the fold goes over the kinds from left to right
NextOn(views) ==
  ViewKinds[Lowest({i \in 1..Len(ViewKinds) : ViewKinds[i] \notin views})]
NextOff(views) ==
  ViewKinds[Lowest({i \in 1..Len(ViewKinds) : ViewKinds[i] \in views})]
AllViews == {ViewKinds[i] : i \in 1..Len(ViewKinds)}

\* TracingLifeTimeTracker(): ptiViewSetCallbacks(BufferRequested,
\* BufferReturned) under CheckPtiReturnValue
SetCallbacks(result) ==
  /\ ~aborted /\ pc[2] = At("TracingLifeTimeTracker", "ptiViewSetCallbacks")
  /\ wiring' = [wiring EXCEPT !.callbacks = @ \/ result = PTI_SUCCESS]
  /\ Goes(2, result = PTI_SUCCESS,
          At("TracingLifeTimeTracker", "ptiViewEnable"))
  /\ last' = Hook("ptiViewSetCallbacks", nullptr, result = PTI_SUCCESS, 0)
  /\ UNCHANGED tracer_ /\ WireUnchanged

\* EnableViews: ptiViewEnable of the next kind; after the last one the
\* constructor returns
EnableView(result) ==
  /\ ~aborted /\ pc[2] = At("TracingLifeTimeTracker", "ptiViewEnable")
  /\ wiring' = IF result = PTI_SUCCESS
               THEN [wiring EXCEPT !.views = @ \cup {NextOn(@)}]
               ELSE wiring
  /\ Goes(2, result = PTI_SUCCESS,
          IF wiring.views \cup {NextOn(wiring.views)} = AllViews
          THEN Idle ELSE pc[2])
  /\ last' = Hook("ptiViewEnable", NextOn(wiring.views),
                  result = PTI_SUCCESS, 0)
  /\ UNCHANGED tracer_ /\ WireUnchanged

\* the program ends and ~TracingLifeTimeTracker() begins
ExitProgram ==
  /\ ~aborted /\ pc[2] = Idle
  /\ pc' = [pc EXCEPT ![2] = At("~TracingLifeTimeTracker", "ptiViewDisable")]
  /\ last' = NoHook
  /\ UNCHANGED <<tracer_, aborted, wiring>> /\ WireUnchanged

\* DisableViews: ptiViewDisable of the next kind
DisableView(result) ==
  /\ ~aborted /\ pc[2] = At("~TracingLifeTimeTracker", "ptiViewDisable")
  /\ wiring' = IF result = PTI_SUCCESS
               THEN [wiring EXCEPT !.views = @ \ {NextOff(@)}]
               ELSE wiring
  /\ Goes(2, result = PTI_SUCCESS,
          IF wiring.views = {NextOff(wiring.views)}
          THEN At("~TracingLifeTimeTracker", "ptiFlushAllViews") ELSE pc[2])
  /\ last' = Hook("ptiViewDisable", NextOff(wiring.views),
                  result = PTI_SUCCESS, 0)
  /\ UNCHANGED tracer_ /\ WireUnchanged

\* ~TracingLifeTimeTracker(): ptiFlushAllViews() under CheckPtiReturnValue
FlushAllViews(result) ==
  /\ ~aborted /\ pc[2] = At("~TracingLifeTimeTracker", "ptiFlushAllViews")
  /\ wiring' = [wiring EXCEPT !.flushed = @ \/ result = PTI_SUCCESS]
  /\ Goes(2, result = PTI_SUCCESS, At("~TracingLifeTimeTracker", "done"))
  /\ last' = Hook("ptiFlushAllViews", nullptr, result = PTI_SUCCESS, 0)
  /\ UNCHANGED tracer_ /\ WireUnchanged

\* nothing has been created: Create and the tracker's constructor are about
\* to run
InitWire ==
  /\ tracer_ = "none"
  /\ timer_frequency_ \in TimerFrequencies
  /\ kernel_info_map_ = Empty
  /\ kernel_interval_list_ = <<>>
  /\ kernel_instance_list_ = <<>>
  /\ command_list_map_ = Empty
  /\ aborted = FALSE
  /\ instance_data = Empty
  /\ zeEvent = [e \in Events |-> [st |-> "dead", ts |-> NoTicks]]
  /\ zeCommandList = {}
  /\ tracker_events = {}
  /\ tracker_pools = {}
  /\ launches = 0
  /\ removed = 0
  /\ resolved = {}
  /\ folded = <<>>
  /\ last = NoHook
  /\ buffer_ = <<>>
  /\ ts_list_ = <<>>
  /\ view_command_list_map_ = Empty
  /\ hung = FALSE
  /\ cerr = <<>>
  /\ printed = Empty
  /\ cout = <<>>
  /\ heap = [b \in Buffers |-> NoBuffer]
  /\ chrome_log_ = <<>>
  /\ buffer_store_ = <<>>
  /\ kernel_record_store_ = <<>>
  /\ lock_ = nullptr
  /\ pc = [t \in Threads |->
             IF t = 1 THEN At("ZeKernelCollector::Create", "zelTracerCreate")
             ELSE At("TracingLifeTimeTracker", "ptiViewSetCallbacks")]
  /\ wiring = NotWired

\* the driver calls a hook of the table it is in while the tracer is enabled
NextWire ==
  \/ \E s \in Results : CreateTracer(s)
  \/ \E s \in Results : SetPrologues(s)
  \/ \E s \in Results : SetEpilogues(s)
  \/ \E s \in Results : SetEnabled(s)
  \/ /\ wiring.epilogues
     /\ \E x \in Contexts, r \in Results : OnExitCommandListCreate(x, r)
  \/ DisableTracing
  \/ DestroyCollector
  \/ \E r \in PtiResults : SetCallbacks(r)
  \/ \E r \in PtiResults : EnableView(r)
  \/ ExitProgram
  \/ \E r \in PtiResults : DisableView(r)
  \/ \E r \in PtiResults : FlushAllViews(r)

SpecWire == InitWire /\ [][NextWire]_vars

(***************************************************************************)
(* The descriptor of a zeEventPoolCreate call: what the pre-hooks of both  *)
(* collectors hand to the driver in place of the caller's descriptor.  A   *)
(* pointer to a descriptor is a sequence of at most one descriptor, the    *)
(* empty one being nullptr; flags is the set of the bits that are set.     *)
(***************************************************************************)
ZE_EVENT_POOL_FLAG_HOST_VISIBLE == "ZE_EVENT_POOL_FLAG_HOST_VISIBLE"
ZE_EVENT_POOL_FLAG_IPC == "ZE_EVENT_POOL_FLAG_IPC"
ZE_EVENT_POOL_FLAG_KERNEL_TIMESTAMP == "ZE_EVENT_POOL_FLAG_KERNEL_TIMESTAMP"
PoolFlags == {ZE_EVENT_POOL_FLAG_HOST_VISIBLE, ZE_EVENT_POOL_FLAG_IPC,
              ZE_EVENT_POOL_FLAG_KERNEL_TIMESTAMP}

\* the descriptors a caller passes: any flags, with or without an extension
\* and for one event or two, or none at all
PoolDescriptors ==
  {<<>>} \cup
  {<<[stype |-> "ZE_STRUCTURE_TYPE_EVENT_POOL_DESC", pNext |-> ext,
      flags |-> flags, count |-> count]>> :
     ext \in {nullptr, 1}, flags \in SUBSET PoolFlags, count \in 1..2}

\* ZeKernelCollector::OnEnterEventPoolCreate, the fields of profiling_desc:
\* flags is assigned twice, each time from desc->flags
ProfilingDesc(desc) ==
  [[stype |-> desc.stype, pNext |-> desc.pNext,
    flags |-> desc.flags \cup {ZE_EVENT_POOL_FLAG_KERNEL_TIMESTAMP},
    count |-> desc.count]
     EXCEPT !.flags = desc.flags \cup {ZE_EVENT_POOL_FLAG_HOST_VISIBLE}]

\* pti::OnEnterEventPoolCreate, the fields of new_pool_desc: flags is
\* assigned once and the two bits are or-ed into it
NewPoolDesc(pool_desc) ==
  [[[stype |-> pool_desc.stype, pNext |-> pool_desc.pNext,
     flags |-> pool_desc.flags, count |-> pool_desc.count]
      EXCEPT !.flags = @ \cup {ZE_EVENT_POOL_FLAG_KERNEL_TIMESTAMP}]
      EXCEPT !.flags = @ \cup {ZE_EVENT_POOL_FLAG_HOST_VISIBLE}]

\* the slot of a zeEventPoolCreate call and *(params->pdesc) as the hook
\* leaves it
DescSlot(profiling_desc, pdesc) ==
  [instance |-> FALSE, profiling_desc |-> profiling_desc, pdesc |-> pdesc]

\* a pre-hook of zeEventPoolCreate that returns with the slot as slot
PoolCreateEntered(op, slot) ==
  /\ Live /\ FreeThread
  /\ launches' = launches + 1
  /\ instance_data' = Enter(launches + 1, slot)
  /\ last' = Hook(op, nullptr, TRUE, 0)
  /\ Commit(Collector)
  /\ UNCHANGED <<tracer_, timer_frequency_, zeCommandList>>

\* ZeKernelCollector::OnEnterEventPoolCreate with *(params->pdesc) = desc
SampleOnEnterEventPoolCreate(desc) ==
  PoolCreateEntered("OnEnterEventPoolCreate",
    IF desc = <<>> THEN DescSlot(FALSE, desc)
    ELSE IF ZE_EVENT_POOL_FLAG_IPC \in desc[1].flags
    THEN DescSlot(FALSE, desc)
    ELSE DescSlot(TRUE, <<ProfilingDesc(desc[1])>>))

\* pti::OnEnterEventPoolCreate with *(params->pdesc) = pool_desc
ViewOnEnterEventPoolCreate(pool_desc) ==
  PoolCreateEntered("pti::OnEnterEventPoolCreate",
    IF pool_desc = <<>> THEN DescSlot(FALSE, pool_desc)
    ELSE IF ZE_EVENT_POOL_FLAG_IPC \in pool_desc[1].flags
    THEN DescSlot(FALSE, pool_desc)
    ELSE DescSlot(TRUE, <<NewPoolDesc(pool_desc[1])>>))

\* the post-hooks of both collectors delete the descriptor the slot holds
NextPool ==
  \/ /\ launches < MaxLaunches
     /\ \E desc \in PoolDescriptors : SampleOnEnterEventPoolCreate(desc)
  \/ /\ launches < MaxLaunches
     /\ \E desc \in PoolDescriptors : ViewOnEnterEventPoolCreate(desc)
  \/ \E call \in PoolCalls, r \in Results : OnExitEventPoolCreate(call, r)

SpecPool == Init /\ [][NextPool]_vars

(***************************************************************************)
(* The program with BufferStore to its end: main reads the kernel records  *)
(* through the pointers BufferStore kept, returns, and the static          *)
(* BufferStore is destroyed.                                               *)
(***************************************************************************)
\* the buffer an address lies in
BufferOf(ptr) ==
  CHOOSE b \in Buffers : b <= ptr /\ ptr < b + kDefaultBufSize

\* main: the loop over BufferStore::Instance().KernelRecords() reads every
\* record the store points to; last.ok tells whether each of them lies in a
\* buffer that has not been released
ReadKernelRecords ==
  /\ ~aborted /\ pc[1] = Idle
  /\ last' = Hook("KernelRecords", nullptr,
                  \A i \in 1..Len(kernel_record_store_) :
                    heap[BufferOf(kernel_record_store_[i])].st # "deleted",
                  Len(kernel_record_store_))
  /\ UNCHANGED <<tracer_, aborted, instance_data, zeEvent, zeCommandList,
                 tracker_events, tracker_pools, launches, viewvars,
                 samplevars, printvars, cout, consumervars, threadvars,
                 wiring>>

\* the unique_ptr's of buffer_store_ release their buffers
RECURSIVE ReleaseAll(_, _)
ReleaseAll(h, store) ==
  IF store = <<>> THEN h
  ELSE ReleaseAll(DeleteBuffer(h, Head(store)), Tail(store))

\* main returns and ~BufferStore runs: kernel_record_store_ goes first, then
\* buffer_store_ with the buffers it owns
DestroyBufferStore ==
  /\ ~aborted /\ pc[1] = Idle
  /\ pc' = [pc EXCEPT ![1] = [op |-> "~BufferStore", on |-> "none",
                              at |-> "done"]]
  /\ kernel_record_store_' = <<>>
  /\ heap' = ReleaseAll(heap, buffer_store_)
  /\ buffer_store_' = <<>>
  /\ last' = Hook("~BufferStore", nullptr, TRUE, Len(buffer_store_))
  /\ UNCHANGED <<tracer_, aborted, instance_data, zeEvent, zeCommandList,
                 tracker_events, tracker_pools, launches, viewvars,
                 samplevars, printvars, cout, chrome_log_, lock_, wiring>>

NextExit ==
  \/ /\ pc[1] = Idle
     /\ \E bad_alloc \in BOOLEAN : OnRequestBuffer(bad_alloc)
  \/ /\ pc[1] = Idle
     /\ \E b \in Buffers, data \in Contents, lenient \in BOOLEAN :
          \E v \in ValidSizes(data) :
            OnReceivedBuffer(b, kDefaultBufSize, v, data, lenient)
  \/ ReadKernelRecords
  \/ DestroyBufferStore

SpecExit == InitView /\ [][NextExit]_vars
(***************************************************************************)
(* Properties of ZeKernelCollector.                                        *)
(***************************************************************************)
RECURSIVE CallCountOver(_, _)
CallCountOver(map, names) ==
  IF names = {} THEN 0
  ELSE LET n == CHOOSE n \in names : TRUE
       IN map[n].call_count + CallCountOver(map, names \ {n})

\* C1: while the process is alive, every instance that has left
\* kernel_instance_list_ has produced exactly one interval and exactly one
\* call_count increment: the number of intervals, the sum of call_count over
\* all names and the number of instances removed are equal
OneRecordPerRemovedInstance ==
  ~aborted =>
    /\ Len(kernel_interval_list_) = removed
    /\ CallCountOver(kernel_info_map_, DOMAIN kernel_info_map_) = removed

\* two launches have been made and both instances have been resolved
BothInstancesResolved ==
  ~aborted /\ launches = 2 /\ removed = 2 /\ kernel_instance_list_ = <<>>

InFlight(event) ==
  \E i \in 1..Len(kernel_instance_list_) :
    kernel_instance_list_[i].event = event

\* C2: an event-destroy or event-host-reset notification for an event whose
\* instance has been resolved and removed changes neither
\* kernel_instance_list_ nor kernel_info_map_ nor kernel_interval_list_, and
\* fails no assertion
ResolvedNotificationIsNoOp ==
  [][\A e \in Events :
       (/\ e \in resolved
        /\ ~InFlight(e)
        /\ OnEnterEventDestroy(e) \/ OnEnterEventHostReset(e))
       => /\ UNCHANGED <<kernel_instance_list_, kernel_info_map_,
                         kernel_interval_list_>>
          /\ ~aborted']_vars

\* an event was reset a second time, after the reset that resolved its
\* instance
NotifiedAgain ==
  /\ last.op = "OnEnterEventHostReset"
  /\ last.handle \in resolved
  /\ last.n = 0
  /\ ~InFlight(last.handle)
  /\ ~aborted

\* C3: after a successful command-list-destroy callback for a list, no
\* instance that was submitted on that list is left in kernel_instance_list_
DestroyedListLeavesNoInstance ==
  (last.op = "OnExitCommandListDestroy" /\ last.ok /\ ~aborted) =>
    \A i \in 1..Len(kernel_instance_list_) :
      kernel_instance_list_[i].command_list # last.handle

\* C4: once the collector is destroyed, kernel_instance_list_ is empty and
\* every event and event pool CreateEvent made has been destroyed
TeardownLeavesNothing ==
  tracer_ = "destroyed" =>
    /\ kernel_instance_list_ = <<>>
    /\ tracker_events = {}
    /\ tracker_pools = {}

\* C5, for ZeKernelCollector: OnExitKernelAppend of a launch the driver
\* refused adds no instance, record or aggregate update and destroys the
\* event and pool CreateEvent made for the launch
RefusedAppendLeavesNothing ==
  [][\A call \in Calls :
       OnExitKernelAppend(call, ZE_RESULT_ERROR_DEVICE_LOST)
       => /\ UNCHANGED <<kernel_instance_list_, kernel_info_map_,
                         kernel_interval_list_>>
          /\ instance_data[call].event_pool # nullptr =>
               /\ zeEvent'[instance_data[call].event].st = "dead"
               /\ instance_data[call].event \notin tracker_events'
               /\ instance_data[call].event_pool \notin tracker_pools']_vars

\* C6, for ZeKernelCollector: a queue synchronize that resolves the three
\* instances of a burst leaves kernel_instance_list_ empty, three intervals
\* with start < end, and call_count 3 in all
BurstResolvesThree ==
  (last.op = "OnExitCommandQueueSynchronize" /\ last.n = 3 /\ ~aborted) =>
    /\ kernel_instance_list_ = <<>>
    /\ Len(kernel_interval_list_) = 3
    /\ \A i \in 1..3 : Less(kernel_interval_list_[i].start,
                             kernel_interval_list_[i].end)
    /\ CallCountOver(kernel_info_map_, DOMAIN kernel_info_map_) = 3

(***************************************************************************)
(* Properties of ZeKernelViewCollector.                                    *)
(***************************************************************************)
\* C5, for ZeKernelViewCollector: the post-hook of a launch the driver refused leaves no record of
\* that launch in the buffer and has destroyed the event that the pre-hook
\* of the launch created
RefusedLaunchLeavesNothing ==
  [][\A call \in Calls, s \in Results :
       ViewOnExitCommandListAppendLaunchKernel(
           call, ZE_RESULT_ERROR_DEVICE_LOST, s)
       => /\ instance_data[call].record > Len(buffer_')
          /\ instance_data[call].event # nullptr =>
               zeEvent'[instance_data[call].event].st = "dead"]_vars

\* C6, for ZeKernelViewCollector: a queue synchronize that finds the
\* signals of three launches complete leaves ts_list_ empty and three
\* records, each with an end timestamp after its start timestamp
BurstLeavesThreeTimedRecords ==
  (/\ last.op = "OnExitCommandQueueSynchronize"
   /\ last.n = 3
   /\ ~aborted /\ ~hung)
  => /\ ts_list_ = <<>>
     /\ Len(buffer_) = 3
     /\ \A i \in 1..Len(buffer_) :
          Less(buffer_[i].start_timestamp, buffer_[i].end_timestamp)

(***************************************************************************)
(* Properties of the timestamp conversion and of the aggregation.          *)
(***************************************************************************)
\* floor(ticks * 10^9 / f) in 96 bits, where nothing overflows
ExactNs(ticks, f) == Div(Mul(Widen(ticks, 12), Widen(NSEC_IN_SEC, 12)), f)

\* the ticks of the one event of SpecTime, and whether the instance has been
\* converted
TheTicks == zeEvent[1].ts
Converted ==
  last.op = "OnExitCommandQueueSynchronize" /\ zeEvent[1].st = "ready"

\* C7: for end_ticks < start_ticks < 2^32 the instance is resolved and its
\* duration is floor((2^32 + end_ticks) * 10^9 / f) -
\* floor(start_ticks * 10^9 / f); for f = 10^9, start 4294967290 and end 10
\* it is 16
WrappedDurationIsExact ==
  (/\ Converted
   /\ Less(TheTicks.end, TheTicks.start)
   /\ Less(TheTicks.start, Two32))
  => /\ ~aborted
     /\ Len(folded) = 1
     /\ Widen(folded[1].time, 12) =
          Sub(ExactNs(Add(Two32, TheTicks.end), timer_frequency_),
              ExactNs(TheTicks.start, timer_frequency_))
     /\ (/\ timer_frequency_ = 1000000000
         /\ TheTicks = Ticks(Sub(Two32, U64(6)), U64(10)))
        => folded[1].time = U64(16)

\* the pair 4294967290, 10 has been converted at 10^9 ticks per second
WrappedPairConverted ==
  /\ Converted
  /\ timer_frequency_ = 1000000000
  /\ TheTicks = Ticks(Sub(Two32, U64(6)), U64(10))
  /\ Len(folded) = 1

\* C8: a start at or beyond 2^32 is fatal for every pair, whether the end
\* is below the start or not, and no record or aggregate update comes of it
StartBeyond32BitsIsFatal ==
  (Converted /\ ~Less(TheTicks.start, Two32))
  => /\ aborted
     /\ kernel_interval_list_ = <<>>
     /\ kernel_info_map_ = Empty

ByName(seq, n) == SelectSeq(seq, LAMBDA x : x.name = n)

RECURSIVE SumTimes(_)
SumTimes(s) ==
  IF s = <<>> THEN U64(0) ELSE Add(s[1].time, SumTimes(Tail(s)))

RECURSIVE MinTimes(_)
MinTimes(s) ==
  IF Len(s) = 1 THEN s[1].time
  ELSE LET m == MinTimes(Tail(s))
       IN IF Less(s[1].time, m) THEN s[1].time ELSE m

RECURSIVE MaxTimes(_)
MaxTimes(s) ==
  IF Len(s) = 1 THEN s[1].time
  ELSE LET m == MaxTimes(Tail(s))
       IN IF Less(m, s[1].time) THEN s[1].time ELSE m

RECURSIVE MaxWidth(_)
MaxWidth(s) ==
  IF Len(s) = 1 THEN s[1].simd_width
  ELSE LET m == MaxWidth(Tail(s))
       IN IF m < s[1].simd_width THEN s[1].simd_width ELSE m

Times(s) == [i \in 1..Len(s) |-> s[i].time]

\* C9: the entry of a name is the fold of the durations AddKernelInfo was
\* given under that name, in their order: their sum, minimum, maximum and
\* number, and the largest width; a name it was never given has no entry;
\* the durations 10, 30, 20 give total 60, min 10, max 30, count 3
EntryIsFoldOfDurations ==
  \A n \in Names :
    LET ds == ByName(folded, n)
    IN IF ds = <<>> THEN n \notin DOMAIN kernel_info_map_
       ELSE /\ n \in DOMAIN kernel_info_map_
            /\ kernel_info_map_[n] =
                 [total_time |-> SumTimes(ds), min_time |-> MinTimes(ds),
                  max_time |-> MaxTimes(ds), call_count |-> Len(ds),
                  simd_width |-> MaxWidth(ds)]
            /\ Times(ds) = <<U64(10), U64(30), U64(20)>> =>
                 /\ kernel_info_map_[n].total_time = U64(60)
                 /\ kernel_info_map_[n].min_time = U64(10)
                 /\ kernel_info_map_[n].max_time = U64(30)
                 /\ kernel_info_map_[n].call_count = 3

\* the durations 10, 30 and 20 have been added under one name, in this order
TenThirtyTwentyFolded ==
  \E n \in Names : Times(ByName(folded, n)) = <<U64(10), U64(30), U64(20)>>

RECURSIVE SumLengths(_)
SumLengths(s) ==
  IF s = <<>> THEN U64(0)
  ELSE Add(Sub(s[1].end, s[1].start), SumLengths(Tail(s)))

EntryMatchesIntervals ==
  ~aborted =>
    \A n \in Names :
      LET is == ByName(kernel_interval_list_, n)
      IN IF is = <<>> THEN n \notin DOMAIN kernel_info_map_
         ELSE /\ n \in DOMAIN kernel_info_map_
              /\ kernel_info_map_[n].total_time = SumLengths(is)
              /\ kernel_info_map_[n].call_count = Len(is)

EntryNeverShrinks ==
  [][\A n \in DOMAIN kernel_info_map_ :
       /\ n \in DOMAIN kernel_info_map_'
       /\ ~Less(kernel_info_map_'[n].total_time,
                kernel_info_map_[n].total_time)
       /\ kernel_info_map_'[n].call_count >=
            kernel_info_map_[n].call_count]_vars

\* C10: while the process is alive, the entry of each name has the sum of
\* (end - start) over the intervals of that name as total_time and their
\* number as call_count; no step lowers the total_time or the call_count
\* of an entry or removes an entry
EntryTracksIntervals == []EntryMatchesIntervals /\ EntryNeverShrinks

\* two intervals of one name have been recorded
TwoIntervalsOfOneName ==
  ~aborted /\ \E n \in Names : Len(ByName(kernel_interval_list_, n)) = 2

(***************************************************************************)
(* Properties of the report.                                               *)
(***************************************************************************)
\* C11: the rows PrintKernelsTable wrote are entries of the map it was
\* given, each at most once, in descending order of total_time and, for
\* equal total_time, with the higher call_count first; a map whose
\* total_time's are all zero gives no row
TableIsOrdered ==
  /\ \A i \in 1..Len(cerr) :
       /\ cerr[i].function \in DOMAIN printed
       /\ cerr[i].duration = printed[cerr[i].function].total_time
       /\ cerr[i].call_count = printed[cerr[i].function].call_count
  /\ \A i, j \in 1..Len(cerr) :
       i < j =>
         /\ cerr[i].function # cerr[j].function
         /\ ~Less(cerr[i].duration, cerr[j].duration)
         /\ cerr[i].duration = cerr[j].duration =>
              cerr[i].call_count >= cerr[j].call_count
  /\ (\A n \in DOMAIN printed : printed[n].total_time = U64(0)) =>
       cerr = <<>>

\* a table of all three entries was written, two of them with the same
\* total_time and different call_count's
TieInTable ==
  /\ Len(cerr) = 3 /\ DOMAIN printed = PrintNames
  /\ \E i \in 1..2 :
       /\ cerr[i].duration = cerr[i + 1].duration
       /\ cerr[i].call_count > cerr[i + 1].call_count

(***************************************************************************)
(* Properties of the buffers and their consumers.                          *)
(***************************************************************************)
\* the records a consumer is handed: n kernel records, all of them valid
KernelsOnly(data) ==
  \A i \in 1..Len(data) : data[i].view_kind = PTI_VIEW_DEVICE_GPU_KERNEL
WholeSize(data) == Len(data) * kBiggestRecordSize

ThreeRecordsDrained ==
  /\ last.op \in {"BufferReturned", "OnReceivedBuffer"}
  /\ last.ok /\ last.n = MaxRecords

\* the buffers that have come back with valid length 0
CameBackEmpty ==
  {b \in Buffers : heap[b].st \in {"returned", "deleted"}
                   /\ heap[b].valid = 0}

\* C13: a buffer that was handed out by the buffer-request callback and has
\* come back with valid length 0 is released, exactly once, and the
\* callback that took it back has decoded nothing
EmptyBufferIsReleased ==
  \A b \in CameBackEmpty :
    /\ heap[b].st = "deleted"
    /\ heap[b].deletes = 1
    /\ (last.op \in {"BufferReturned", "OnReceivedBuffer"}
        /\ last.handle = b) => last.n = 0

\* the part of C13 that holds: nothing is decoded from such a buffer
EmptyBufferDecodesNothing ==
  [][\A b \in Buffers, data \in Contents, lenient \in BOOLEAN :
       \/ BufferReturned(b, kDefaultBufSize, 0, data, lenient)
       \/ OnReceivedBuffer(b, kDefaultBufSize, 0, data, lenient)
       => UNCHANGED <<chrome_log_, kernel_record_store_>>]_vars

\* the first record of a returned buffer for which the decoder reports a
\* status that is neither success nor end-of-buffer: one that is cut short
\* by the valid length or whose tag is no kind; 0 if there is none
BadRecords(data, valid_size, lenient) ==
  {i \in 1..Len(data) :
     /\ (i - 1) * kBiggestRecordSize < valid_size
     /\ \/ i * kBiggestRecordSize > valid_size
        \/ ~Recognised(data[i].view_kind, lenient)}
FirstBad(data, valid_size, lenient) ==
  IF BadRecords(data, valid_size, lenient) = {} THEN 0
  ELSE Lowest(BadRecords(data, valid_size, lenient))

\* the trace events, and the pointers to the kernel records, of the
\* records before the k-th
EventsBefore(data, k) ==
  [i \in 1..(k - 1) |-> [ph |-> "X", id |-> data[i].kernel_id]]
RECURSIVE KernelsBefore(_, _, _)
KernelsBefore(buf, data, k) ==
  IF k <= 1 THEN <<>>
  ELSE KernelsBefore(buf, data, k - 1)
       \o (IF data[k - 1].view_kind = PTI_VIEW_DEVICE_GPU_KERNEL
           THEN <<buf + (k - 2) * kBiggestRecordSize>> ELSE <<>>)

\* C14: a consumer that drains a returned buffer whose k-th record gets a
\* status that is neither success nor end-of-buffer has recorded the
\* records before the k-th and no other, lets no exception escape and has
\* released the buffer when it returns; a drain that ends on end-of-buffer
\* is no error
BadRecordEndsDrain ==
  [][\A b \in Buffers, data \in Contents, lenient \in BOOLEAN :
       \A v \in ValidSizes(data) :
         /\ (/\ FirstBad(data, v, lenient) > 0
             /\ BufferReturned(b, kDefaultBufSize, v, data, lenient))
            => /\ chrome_log_' =
                    chrome_log_
                      \o EventsBefore(data, FirstBad(data, v, lenient))
               /\ ~aborted'
               /\ heap'[b].st = "deleted" /\ heap'[b].deletes = 1
         /\ (/\ FirstBad(data, v, lenient) > 0
             /\ OnReceivedBuffer(b, kDefaultBufSize, v, data, lenient))
            => /\ kernel_record_store_' =
                    kernel_record_store_
                      \o KernelsBefore(b, data, FirstBad(data, v, lenient))
               /\ ~aborted'
               /\ heap'[b].st = "deleted" /\ heap'[b].deletes = 1
         /\ (/\ FirstBad(data, v, lenient) = 0
             /\ \/ BufferReturned(b, kDefaultBufSize, v, data, lenient)
                \/ OnReceivedBuffer(b, kDefaultBufSize, v, data, lenient))
            => (~aborted' => last'.ok)]_vars

\* the part of C14 that holds: BufferStore keeps the kernel records before
\* the bad one, no other, and does not abort; BufferReturned does the same
\* and deletes the buffer, unless a record tagged PTI_VIEW_INVALID came
\* with PTI_SUCCESS before the bad one
BadRecordKeepsEarlierRecords ==
  [][\A b \in Buffers, data \in Contents, lenient \in BOOLEAN :
       \A v \in ValidSizes(data) :
         /\ (/\ FirstBad(data, v, lenient) > 0
             /\ \A i \in 1..(FirstBad(data, v, lenient) - 1) :
                  data[i].view_kind # PTI_VIEW_INVALID
             /\ BufferReturned(b, kDefaultBufSize, v, data, lenient))
            => /\ chrome_log_' =
                    chrome_log_
                      \o EventsBefore(data, FirstBad(data, v, lenient))
               /\ ~aborted'
               /\ heap'[b].st = "deleted" /\ heap'[b].deletes = 1
         /\ (/\ FirstBad(data, v, lenient) > 0
             /\ OnReceivedBuffer(b, kDefaultBufSize, v, data, lenient))
            => /\ kernel_record_store_' =
                    kernel_record_store_
                      \o KernelsBefore(b, data, FirstBad(data, v, lenient))
               /\ ~aborted'
               /\ heap'[b].st = "returned"
               /\ \E i \in 1..Len(buffer_store_') : buffer_store_'[i] = b]_vars
(***************************************************************************)
(* Properties of the threads.                                              *)
(***************************************************************************)
Inside(t, members) == pc[t].at = "inside" /\ pc[t].on \in members
TogetherIn(members) ==
  \E t \in Threads, u \in Threads :
    /\ t # u
    /\ Inside(t, members) /\ Inside(u, members)
    /\ pc[t].on = pc[u].on

\* the command-list metadata table and the in-flight collection of
\* ZeKernelCollector and of ZeKernelViewCollector
SampleTables == {"kernel_instance_list_", "command_list_map_"}
ViewTables == {"ts_list_", "view_command_list_map_"}

\* C15: a thread that reads or writes the command-list metadata table or
\* the in-flight collection of a collector holds the collector's mutex
\* while it does, and no two threads are in the same one of them at the
\* same time
TablesUnderMutex ==
  /\ \A t \in Threads :
       Inside(t, SampleTables \cup ViewTables) => lock_ = t
  /\ ~TogetherIn(SampleTables \cup ViewTables)

\* C15, for ZeKernelCollector alone: it holds
SampleTablesUnderMutex ==
  /\ \A t \in Threads : Inside(t, SampleTables) => lock_ = t
  /\ ~TogetherIn(SampleTables)

\* a thread of ZeKernelCollector is in the instance list while another
\* waits at its lock_guard
OneInsideOneWaiting ==
  \E t \in Threads, u \in Threads :
    /\ Inside(t, SampleTables)
    /\ pc[u].at = "lock_guard"

\* C16: no two threads are in the buffer list or in the store of the
\* decoded records of a consumer at the same time
ConsumerStoresUnderLock ==
  ~TogetherIn({"buffer_store_", "kernel_record_store_", "chrome_log_"})
(***************************************************************************)
(* Properties of the hooks when a driver call fails.                       *)
(***************************************************************************)
\* C17: whatever driver call fails inside it (event pool or event
\* creation, shared memory allocation), a hook of the launch of a kernel or
\* of the creation of a command list returns normally: no exception leaves
\* it
HooksReturnNormally ==
  last.op \in {"OnEnterCommandListAppendLaunchKernel",
               "OnExitCommandListAppendLaunchKernel",
               "OnExitCommandListCreate", "OnExitCommandListDestroy"}
    => ~aborted

\* the part of C17 that holds: the pre-hook of a launch catches the
\* failure of the event pool or event creation
PreHookCatches ==
  last.op = "OnEnterCommandListAppendLaunchKernel" => ~aborted

\* C18: the pre-hook of a launch in which the creation of the tracker's own
\* event pool or event fails returns normally and the process is not
\* aborted, so that later launches are still traced
FailedSignalCreationIsSurvived ==
  [][\A k \in Kernels, l \in DOMAIN command_list_map_ :
       OnEnterKernelAppend(k, nullptr, l, ZE_RESULT_ERROR_DEVICE_LOST,
                           ZE_RESULT_SUCCESS, nullptr)
       => ~aborted']_vars

\* C18, for ZeKernelViewCollector: it holds; the launch is still recorded
ViewFailedSignalCreationIsSurvived ==
  [][\A k \in Names, l \in Lists, p \in Results, q \in Results :
       /\ p # ZE_RESULT_SUCCESS \/ q # ZE_RESULT_SUCCESS
       /\ ViewOnEnterCommandListAppendLaunchKernel(k, nullptr, l, p, q)
       => /\ ~aborted'
          /\ Len(buffer_') = Len(buffer_) + 1]_vars

\* C19: a driver call of a hook that fails does not let the hook go on as
\* if it had succeeded: when zeEventCreate fails in the pre-hook of a
\* launch, the process is ended by the assertion on its result or the hook
\* leaves nothing for the launch; it does not hand on an event
DriverResultsAreExamined ==
  [][\A k \in Kernels, l \in Lists, stale \in StaleHandles :
       OnEnterKernelAppend(k, nullptr, l, ZE_RESULT_SUCCESS,
                           ZE_RESULT_ERROR_DEVICE_LOST, stale)
       => aborted' \/ instance_data' = instance_data]_vars

\* the part of C19 that holds: the results of zeEventPoolCreate,
\* zeEventQueryStatus and zeEventQueryKernelTimestamp are asserted, so a
\* failed event pool creation ends the process before the pool is used
PoolResultIsExamined ==
  [][\A k \in Kernels, l \in Lists, q \in Results, stale \in StaleHandles :
       OnEnterKernelAppend(k, nullptr, l, ZE_RESULT_ERROR_DEVICE_LOST, q,
                           stale)
       => aborted' /\ instance_data' = instance_data]_vars
(***************************************************************************)
(* The poll pass and the instances whose event is not ready.               *)
(***************************************************************************)
\* the entries of a list whose event has the given status, in list order
WithStatus(list, ev, status) ==
  SelectSeq(list, LAMBDA i : zeEventQueryStatus(ev, i.event) = status)

\* C20: a poll pass of OnExitCommandQueueSynchronize leaves the instances
\* whose event reports ZE_RESULT_NOT_READY in kernel_instance_list_, unchanged
\* and in their order, and adds no interval for them; a pass that returns
\* has removed every instance whose event reports ZE_RESULT_SUCCESS, with one
\* interval each, so that an instance a pass has left is resolved by the
\* first later pass that finds its event ready
PollLeavesNotReadyInstances ==
  [][OnExitCommandQueueSynchronize(ZE_RESULT_SUCCESS) =>
       /\ WithStatus(kernel_instance_list_', zeEvent, ZE_RESULT_NOT_READY)
            = WithStatus(kernel_instance_list_, zeEvent, ZE_RESULT_NOT_READY)
       /\ Len(kernel_interval_list_') - Len(kernel_interval_list_)
            <= Len(WithStatus(kernel_instance_list_, zeEvent,
                              ZE_RESULT_SUCCESS))
       /\ ~aborted' =>
            /\ kernel_instance_list_'
                 = WithStatus(kernel_instance_list_, zeEvent,
                              ZE_RESULT_NOT_READY)
            /\ Len(kernel_interval_list_') - Len(kernel_interval_list_)
                 = Len(WithStatus(kernel_instance_list_, zeEvent,
                                  ZE_RESULT_SUCCESS))]_vars

\* a pass has resolved one instance and left another, whose event is not
\* ready, in kernel_instance_list_
PassLeftOneNotReady ==
  /\ last.op = "OnExitCommandQueueSynchronize" /\ last.ok /\ ~aborted
  /\ removed >= 1
  /\ Len(kernel_instance_list_) = 1
  /\ zeEventQueryStatus(zeEvent, kernel_instance_list_[1].event)
       = ZE_RESULT_NOT_READY

\* a pass has found the list's last instance ready: both launches are
\* resolved, the second by a pass later than the first
LeftInstanceResolvedLater ==
  /\ last.op = "OnExitCommandQueueSynchronize" /\ last.ok /\ ~aborted
  /\ last.n = 1 /\ removed = 2 /\ launches = 2
  /\ kernel_instance_list_ = <<>>

\* the same of pti::OnExitCommandQueueSynchronize and ts_list_, whose pass
\* returns unless the erased iterator traps or an event reports an error
ViewPollLeavesNotReadyEntries ==
  [][\A outcome \in EraseOutcomes :
       ViewOnExitCommandQueueSynchronize(ZE_RESULT_SUCCESS, outcome) =>
         /\ WithStatus(ts_list_', zeEvent, ZE_RESULT_NOT_READY)
              = WithStatus(ts_list_, zeEvent, ZE_RESULT_NOT_READY)
         /\ buffer_' = buffer_
         /\ (~aborted' /\ ~hung') =>
              ts_list_' = WithStatus(ts_list_, zeEvent, ZE_RESULT_NOT_READY)]_vars

\* a pass has erased one entry of ts_list_ and left one that is not ready
ViewPassLeftOneNotReady ==
  /\ last.op = "OnExitCommandQueueSynchronize" /\ last.ok
  /\ ~aborted /\ ~hung
  /\ last.n >= 1
  /\ Len(ts_list_) = 1
  /\ zeEventQueryStatus(zeEvent, ts_list_[1].event) = ZE_RESULT_NOT_READY
(***************************************************************************)
(* The poll loop, the order of the intervals and the mutex.                *)
(***************************************************************************)
\* C21: the poll loop of the queue-synchronize callback ends whatever
\* zeEventQueryStatus returns: the callback is never left in its loop
PollLoopTerminates ==
  [][\A result \in Results, outcome \in EraseOutcomes :
       ViewOnExitCommandQueueSynchronize(result, outcome) => ~hung']_vars

\* the same of ZeKernelCollector, whose pass ends in PTI_ASSERT(0) on an
\* error status: every pass returns or aborts, with no instance added
SamplePollLoopEnds ==
  [][\A result \in Results :
       OnExitCommandQueueSynchronize(result) =>
         /\ ~hung'
         /\ Len(kernel_instance_list_') <= Len(kernel_instance_list_)]_vars

\* the instances of old that are no longer in new, in the order of old
RECURSIVE Taken(_, _)
Taken(old, new) ==
  IF old = <<>> THEN <<>>
  ELSE IF new # <<>> /\ Head(old) = Head(new)
  THEN Taken(Tail(old), Tail(new))
  ELSE <<Head(old)>> \o Taken(Tail(old), new)

NamesOf(list) == [i \in 1..Len(list) |-> list[i].name]

\* C22: kernel_interval_list_ only grows at its end, and what a step adds
\* are the intervals of the instances the step resolves, in the order in
\* which it resolves them: an instance resolved before another has its
\* interval before the other's, whatever the order of their launches
IntervalsInResolutionOrder ==
  [][/\ Len(kernel_interval_list_') >= Len(kernel_interval_list_)
     /\ SubSeq(kernel_interval_list_', 1, Len(kernel_interval_list_))
          = kernel_interval_list_
     /\ ~aborted' =>
          NamesOf(SubSeq(kernel_interval_list_',
                         Len(kernel_interval_list_) + 1,
                         Len(kernel_interval_list_')))
            = NamesOf(Taken(kernel_instance_list_,
                            kernel_instance_list_'))]_vars

\* two launches of different kernels have been resolved by two different
\* notifications, K2's before K1's
TwoResolvedOneAfterTheOther ==
  /\ ~aborted /\ launches = 2 /\ removed = 2 /\ last.n = 1
  /\ kernel_instance_list_ = <<>>
  /\ NamesOf(kernel_interval_list_) = <<"K2", "K1">>

\* no pass takes the second of two instances in flight and leaves the first
\* (its violation shows a resolution against the order of the launches)
NeverSecondBeforeFirst ==
  [][~(/\ Len(kernel_instance_list_) = 2
       /\ kernel_instance_list_[1].name = "K1"
       /\ kernel_instance_list_[2].name = "K2"
       /\ kernel_instance_list_' = <<kernel_instance_list_[1]>>
       /\ ~aborted')]_vars

\* the statements of the locked member functions that read or change
\* kernel_instance_list_
TableStatements == {"push_back", "find", "begin", "end?", "++it", "erase"}

\* C23: a thread holds lock_ only while it is at a statement that reads or
\* changes the tables, not while it queries the event's status or
\* timestamps, converts them, adds to the aggregate and the interval list
\* or destroys the event and the event pool
MutexOnlyAcrossMutation ==
  \A t \in Threads :
    lock_ = t => pc[t].at \in TableStatements

\* the lock does what it is there for: a thread past its lock_guard holds
\* lock_, and no two threads are past it at once
LockedMembersExclude ==
  /\ \A t \in Threads :
       pc[t].at \notin {"idle", "lock_guard"} => lock_ = t
  /\ \A t \in Threads, u \in Threads :
       (t # u /\ pc[t].at \notin {"idle", "lock_guard"})
         => pc[u].at \in {"idle", "lock_guard"}
(***************************************************************************)
(* The command-list metadata table, the buffers and the events.            *)
(***************************************************************************)
\* C24: the command-list metadata table follows the callbacks: a successful
\* create callback leaves the new list in the table with the context of
\* this creation, a successful destroy callback leaves the list out of it,
\* and both leave the other lists as they were
ListTableFollowsCallbacks ==
  [][/\ \A context \in Contexts :
          ViewOnExitCommandListCreate(context, ZE_RESULT_SUCCESS) =>
            /\ DOMAIN view_command_list_map_'
                 = DOMAIN view_command_list_map_ \cup {last'.handle}
            /\ view_command_list_map_'[last'.handle].ctx = context
     /\ \A command_list \in Lists :
          ViewOnExitCommandListDestroy(command_list, ZE_RESULT_SUCCESS) =>
            DOMAIN view_command_list_map_'
              = DOMAIN view_command_list_map_ \ {command_list}]_vars

\* the same of AddCommandList and RemoveCommandList of ZeKernelCollector,
\* while no assertion has failed: it holds
SampleListTableFollowsCallbacks ==
  [][~aborted' =>
       /\ \A context \in Contexts :
            (\/ OnExitCommandListCreate(context, ZE_RESULT_SUCCESS)
             \/ OnExitCommandListCreateImmediate(context, ZE_RESULT_SUCCESS))
            => /\ DOMAIN command_list_map_'
                    = DOMAIN command_list_map_ \cup {last'.handle}
               /\ last'.handle \notin DOMAIN command_list_map_
               /\ command_list_map_'[last'.handle] = context
       /\ \A command_list \in Lists :
            OnExitCommandListDestroy(command_list, ZE_RESULT_SUCCESS) =>
              /\ command_list \in DOMAIN command_list_map_
              /\ DOMAIN command_list_map_'
                   = DOMAIN command_list_map_ \ {command_list}]_vars


\* the buffers a consumer has got and that have not been released
Outstanding == {b \in Buffers : heap[b].st \in {"requested", "returned"}}

RequestAfterReturn ==
  /\ ~aborted
  /\ last.op = "BufferRequested" /\ last.ok
  /\ \E b \in Buffers : heap[b].st = "deleted"

\* no launch is in a hook or in flight
NothingInFlight ==
  Calls = {} /\ kernel_instance_list_ = <<>> /\ ts_list_ = <<>>

\* C26: the events and event pools the tracker made for launches without a
\* signal event are destroyed with their launch, on a refused append or on
\* the resolution of the instance: once no launch is in a hook or in flight,
\* none of them is left
OwnedSignalsGoWithTheirLaunch ==
  (~aborted /\ ~hung /\ NothingInFlight) =>
    tracker_events = {} /\ tracker_pools = {}

\* the same of ZeKernelCollector while it traces: it holds
SampleOwnedSignalsGoWithTheirLaunch ==
  (~aborted /\ NothingInFlight) =>
    tracker_events = {} /\ tracker_pools = {}

\* a launch for which ZeKernelCollector made the event has been resolved
\* and its event and pool are gone
OwnedSignalDestroyedOnResolution ==
  /\ ~aborted /\ NothingInFlight
  /\ removed >= 1 /\ \E e \in resolved : zeEvent[e].st = "dead"
  /\ tracker_events = {} /\ tracker_pools = {}

\* ZeKernelCollector leaves the events of the traced program alone: a
\* signal event the caller supplied stays the call's signal event, and the
\* kernel-append hooks and the poll pass change no event but the tracker's
CallerSignalUntouched ==
  [][/\ \A k \in Kernels, e \in Events, l \in Lists :
          OnEnterKernelAppend(k, e, l, ZE_RESULT_SUCCESS, ZE_RESULT_SUCCESS,
                              nullptr)
          => /\ instance_data'[launches'].signal_event = e
             /\ UNCHANGED <<zeEvent, tracker_events, tracker_pools>>
     /\ ((\E call \in Calls, r \in Results : OnExitKernelAppend(call, r))
         \/ (\E r \in Results : OnExitCommandQueueSynchronize(r)))
        => \A e \in Events \ tracker_events : zeEvent'[e] = zeEvent[e]]_vars

\* C27: kernel_instance_list_ never holds two instances with the same event
OneInstancePerEvent ==
  \A i \in 1..Len(kernel_instance_list_), j \in 1..Len(kernel_instance_list_) :
    kernel_instance_list_[i].event = kernel_instance_list_[j].event => i = j

(***************************************************************************)
(* The wrap correction, refused calls and the per-call slot.               *)
(***************************************************************************)
\* end_ns - start_ns in uint64_t when 2^32 is not added to the end
UncorrectedTime(ticks, f) ==
  Sub(Div(Mul(ticks.end, NSEC_IN_SEC), f),
      Div(Mul(ticks.start, NSEC_IN_SEC), f))

\* C28: a pair whose end is not below its start, equal ticks included, is
\* converted without the 2^32 of the wrap correction
NoCorrectionUnlessEndBelowStart ==
  (Converted /\ ~Less(TheTicks.end, TheTicks.start) /\ ~aborted)
  => /\ Len(folded) = 1
     /\ folded[1].time = UncorrectedTime(TheTicks, timer_frequency_)

\* the same of the pairs whose end is above their start: it holds
NoCorrectionWhenEndAboveStart ==
  (Converted /\ Less(TheTicks.start, TheTicks.end) /\ ~aborted)
  => /\ Len(folded) = 1
     /\ folded[1].time = UncorrectedTime(TheTicks, timer_frequency_)

\* C29: a command-list create, create-immediate or destroy callback, or a
\* queue synchronize or queue destroy callback, whose result is not
\* ZE_RESULT_SUCCESS leaves command_list_map_, kernel_instance_list_,
\* kernel_info_map_ and kernel_interval_list_ as they are
RefusedCallbackChangesNothing ==
  [][(\/ \E context \in Contexts :
           \/ OnExitCommandListCreate(context, ZE_RESULT_ERROR_DEVICE_LOST)
           \/ OnExitCommandListCreateImmediate(context,
                                               ZE_RESULT_ERROR_DEVICE_LOST)
      \/ \E command_list \in Lists :
           OnExitCommandListDestroy(command_list, ZE_RESULT_ERROR_DEVICE_LOST)
      \/ OnExitCommandQueueSynchronize(ZE_RESULT_ERROR_DEVICE_LOST)
      \/ OnExitCommandQueueDestroy(ZE_RESULT_ERROR_DEVICE_LOST))
     => /\ UNCHANGED <<command_list_map_, kernel_instance_list_,
                       kernel_info_map_, kernel_interval_list_>>
        /\ ~aborted']_vars

\* a queue synchronize has failed while an instance whose event is ready
\* was in flight
RefusedSynchronizeWithReadyInstance ==
  /\ last.op = "OnExitCommandQueueSynchronize" /\ ~last.ok /\ ~aborted
  /\ \E i \in 1..Len(kernel_instance_list_) :
       zeEventQueryStatus(zeEvent, kernel_instance_list_[i].event)
         = ZE_RESULT_SUCCESS

\* the same of the callbacks of ZeKernelViewCollector
ViewRefusedCallbackChangesNothing ==
  [][(\/ \E context \in Contexts :
           ViewOnExitCommandListCreate(context, ZE_RESULT_ERROR_DEVICE_LOST)
      \/ \E command_list \in Lists :
           ViewOnExitCommandListDestroy(command_list,
                                        ZE_RESULT_ERROR_DEVICE_LOST)
      \/ \E outcome \in EraseOutcomes :
           ViewOnExitCommandQueueSynchronize(ZE_RESULT_ERROR_DEVICE_LOST,
                                             outcome))
     => /\ UNCHANGED <<view_command_list_map_, ts_list_, buffer_>>
        /\ ~aborted' /\ ~hung']_vars

RefusedPoolCreateReleasedItsDescriptor ==
  /\ ~aborted /\ ~last.ok /\ last.n = 1
  /\ last.op = "OnExitEventPoolCreate"

\* the epilogue of a zeEventPoolCreate whose prologue stored nothing has
\* returned
NothingStoredNothingReleased ==
  /\ ~aborted /\ last.n = 0
  /\ last.op = "OnExitEventPoolCreate"

(***************************************************************************)
(* Abandoning on reset, the wiring order, the event-pool descriptor.       *)
(***************************************************************************)
\* the in-flight entries whose signal has not completed
NeverCompleted == {i \in 1..Len(ts_list_) : zeEvent[ts_list_[i].event].st = "not_ready"}

\* C31: after a successful command-list reset callback for list L no
\* instance submitted on L whose signal has not completed is in the
\* in-flight collection (the program has one command list, so every
\* instance in flight was submitted on it)
ResetAbandonsInFlight ==
  [][\A command_list \in Lists :
       ViewOnExitCommandListReset(command_list, ZE_RESULT_SUCCESS)
         => NeverCompleted' = {}]_vars

TracingWithAllViewsOn ==
  /\ tracer_ = "enabled"
  /\ wiring.views = AllViews

\* what C33 asks of the descriptor pdesc a pre-hook hands to the driver for
\* the caller's descriptor desc
CarriesProfilingFlags(desc, pdesc) ==
  IF desc = <<>> THEN pdesc = desc
  ELSE IF ZE_EVENT_POOL_FLAG_IPC \in desc[1].flags THEN pdesc = desc
  ELSE /\ pdesc # <<>>
       /\ pdesc[1].flags = desc[1].flags
                             \cup {ZE_EVENT_POOL_FLAG_KERNEL_TIMESTAMP,
                                   ZE_EVENT_POOL_FLAG_HOST_VISIBLE}
       /\ pdesc[1].stype = desc[1].stype
       /\ pdesc[1].pNext = desc[1].pNext
       /\ pdesc[1].count = desc[1].count

\* C33: for a non-null, non-IPC descriptor the pre-hook of
\* zeEventPoolCreate hands the driver a descriptor with all of the caller's
\* flags plus the kernel-timestamp and the host-visible flag and with the
\* caller's type, extension pointer and count; a null or an IPC descriptor
\* is passed through as it is
PoolDescriptorCarriesProfilingFlags ==
  [][\A desc \in PoolDescriptors :
       SampleOnEnterEventPoolCreate(desc)
         => CarriesProfilingFlags(desc, instance_data'[launches'].pdesc)]_vars

\* the same of pti::OnEnterEventPoolCreate: it holds
ViewPoolDescriptorCarriesProfilingFlags ==
  [][\A desc \in PoolDescriptors :
       ViewOnEnterEventPoolCreate(desc)
         => CarriesProfilingFlags(desc, instance_data'[launches'].pdesc)]_vars

(***************************************************************************)
(* The assertions of ZeKernelCollector.                                    *)
(***************************************************************************)
\* the events that have an instance in kernel_instance_list_
Tracked == {kernel_instance_list_[i].event : i \in 1..Len(kernel_instance_list_)}

\* C34: whenever ProcessInstance is reached from an event-destroy or an
\* event-host-reset notification for a tracked signal, the status query of
\* the signal returns ZE_RESULT_SUCCESS, so that its assertion
\* PTI_ASSERT(status == ZE_RESULT_SUCCESS) holds
StatusAssertionHolds ==
  [][\A event \in Tracked :
       (OnEnterEventDestroy(event) \/ OnEnterEventHostReset(event))
         => zeEventQueryStatus(zeEvent, event) = ZE_RESULT_SUCCESS]_vars

\* ProcessInstances reaches ProcessInstance only for a signal whose status
\* query has returned success: a poll pass over signals that are ready or
\* not ready fails no assertion on the status
PollPassesStatusAssertion ==
  [][\A r \in Results :
       ((OnExitCommandQueueSynchronize(r) \/ OnExitCommandQueueDestroy(r))
        /\ \A event \in Tracked : zeEvent[event].st = "not_ready")
         => ~aborted']_vars

\* C35: every command list handed to GetCommandListContext (by the pre-hook
\* of a launch without a signal event) or to RemoveCommandList (by the
\* destroy callback, once its poll pass has returned) is in
\* command_list_map_, command lists created before the collector included,
\* and the handle AddCommandList is given by a create callback is not in it
ListHandlesAreKnown ==
  [][/\ \A k \in Kernels, l \in Lists, p \in Results :
          OnEnterKernelAppend(k, nullptr, l, p, ZE_RESULT_SUCCESS, nullptr)
            => l \in DOMAIN command_list_map_
     /\ \A l \in Lists :
          (/\ OnExitCommandListDestroy(l, ZE_RESULT_SUCCESS)
           /\ ~ProcessInstances(Collector, timer_frequency_).aborted)
            => l \in DOMAIN command_list_map_
     /\ \A x \in Contexts :
          (\/ OnExitCommandListCreate(x, ZE_RESULT_SUCCESS)
           \/ OnExitCommandListCreateImmediate(x, ZE_RESULT_SUCCESS))
            => last'.handle \notin DOMAIN command_list_map_]_vars

\* the part of AddCommandList: a create callback never brings a handle that
\* is in command_list_map_
CreatedHandleIsNew ==
  [][\A x \in Contexts :
       (\/ OnExitCommandListCreate(x, ZE_RESULT_SUCCESS)
        \/ OnExitCommandListCreateImmediate(x, ZE_RESULT_SUCCESS))
         => last'.handle \notin DOMAIN command_list_map_]_vars

\* C36: whenever the post-hook of a kernel append runs, the signal event
\* and the command list of the call are not null, so that
\* PTI_ASSERT(*(params->phSignalEvent) != nullptr) and
\* PTI_ASSERT(command_list != nullptr) hold, also for a launch with a null
\* command list and no signal event
AppendAssertionsHold ==
  [][\A call \in Calls, r \in Results :
       OnExitKernelAppend(call, r)
         => /\ instance_data[call].signal_event # nullptr
            /\ instance_data[call].command_list # nullptr]_vars

\* for a launch on a command list they do hold: the pre-hook has left the
\* caller's signal event or the one it made
AppendOnListAssertionsHold ==
  [][\A call \in Calls, r \in Results :
       (OnExitKernelAppend(call, r)
        /\ instance_data[call].command_list # nullptr)
         => instance_data[call].signal_event # nullptr]_vars

(***************************************************************************)
(* The release of the buffers.                                             *)
(***************************************************************************)
\* C37: a buffer that BufferRequested handed out and that comes back to
\* BufferReturned with a valid length that is not 0 is released exactly
\* once, by the callback that takes it back and after the records of it
\* have been consumed; no buffer is released twice and none is read once it
\* is released
ReturnedBufferReleasedOnce ==
  [][/\ \A b \in Buffers, data \in Contents, lenient \in BOOLEAN :
          \A v \in ValidSizes(data) \ {0} :
            BufferReturned(b, kDefaultBufSize, v, data, lenient)
              => /\ heap[b].st = "requested"
                 /\ heap'[b].st = "deleted" /\ heap'[b].deletes = 1
     /\ \A b \in Buffers : heap'[b].deletes <= 1]_vars

\* what holds of BufferReturned: a call that returns has released the
\* buffer, once, and has read it before; no buffer is released twice
ReturningCallReleasesOnce ==
  [][/\ \A b \in Buffers, data \in Contents, lenient \in BOOLEAN :
          \A v \in ValidSizes(data) \ {0} :
            (BufferReturned(b, kDefaultBufSize, v, data, lenient)
             /\ ~aborted')
              => /\ heap[b].st = "requested"
                 /\ heap'[b].st = "deleted" /\ heap'[b].deletes = 1
     /\ \A b \in Buffers : heap'[b].deletes <= 1]_vars

\* what holds of BufferStore: it reads a buffer when the buffer comes back
\* and when main goes over the kernel records, always before the release;
\* its destructor releases every buffer it handed out, once
BufferStoreReleasesAtExit ==
  [][/\ \A b \in Buffers, data \in Contents, lenient \in BOOLEAN :
          \A v \in ValidSizes(data) :
            OnReceivedBuffer(b, kDefaultBufSize, v, data, lenient)
              => heap[b].st = "requested"
     /\ ReadKernelRecords => last'.ok
     /\ DestroyBufferStore =>
          \A b \in Buffers :
            heap[b].owner = "BufferStore"
              => heap'[b].st = "deleted" /\ heap'[b].deletes = 1
     /\ \A b \in Buffers : heap'[b].deletes <= 1]_vars

(***************************************************************************)
(* The aggregate entries as the report divides them                        *)
(***************************************************************************)
\* C38: every entry of the aggregate map has call_count >= 1 and
\* min_time <= max_time <= total_time, so the report's average
\* total_time / call_count never divides by zero
EntriesAreOrdered ==
  \A n \in DOMAIN kernel_info_map_ :
    /\ kernel_info_map_[n].call_count >= 1
    /\ ~Less(kernel_info_map_[n].max_time, kernel_info_map_[n].min_time)
    /\ ~Less(kernel_info_map_[n].total_time, kernel_info_map_[n].max_time)

\* an entry folded from several calls of different durations
EntryOfSeveralDurations ==
  \E n \in DOMAIN kernel_info_map_ :
    /\ kernel_info_map_[n].call_count >= 2
    /\ Less(kernel_info_map_[n].min_time, kernel_info_map_[n].max_time)
    /\ Less(kernel_info_map_[n].max_time, kernel_info_map_[n].total_time)

(***************************************************************************)
(* The conversion of ticks below 2^32                                      *)
(***************************************************************************)
\* C39: for a timer frequency of at most 10^9 and a tick pair with both
\* values below 2^32 the converted timestamps satisfy start_ns < end_ns:
\* the assertion of AddKernelInterval holds and the interval produced has a
\* positive length
ShortTicksGivePositiveInterval ==
  (/\ Converted
   /\ Less(TheTicks.start, Two32)
   /\ Less(TheTicks.end, Two32)
   /\ timer_frequency_ <= 1000000000)
  => /\ ~aborted
     /\ Len(kernel_interval_list_) = 1
     /\ Less(kernel_interval_list_[1].start, kernel_interval_list_[1].end)

\* a pair of equal ticks has been converted: it takes the branch of the
\* 32-bit wrap and gives an interval of 2^32 ticks
EqualTicksConverted ==
  /\ Converted
  /\ TheTicks.start = TheTicks.end
  /\ Less(TheTicks.start, Two32)
  /\ Len(kernel_interval_list_) = 1
  /\ Less(kernel_interval_list_[1].start, kernel_interval_list_[1].end)

(***************************************************************************)
(* The conversion in 64 bits against the conversion in the integers        *)
(***************************************************************************)
\* the end ProcessInstance multiplies: the end itself, or 2^32 + end when
\* the start is not below it
CorrectedEnd ==
  IF Less(TheTicks.start, TheTicks.end) THEN TheTicks.end
  ELSE Add(Two32, TheTicks.end)

\* C40: the conversion never overflows 64 bits: for every pair of ticks
\* that passes the checks of the conversion the interval produced has
\* start_ns = floor(start_ticks * 10^9 / f) and
\* end_ns = floor(corrected_end_ticks * 10^9 / f)
ConversionIsExact ==
  (/\ Converted
   /\ Less(TheTicks.start, TheTicks.end) \/ Less(TheTicks.start, Two32))
  => /\ ~aborted
     /\ Len(kernel_interval_list_) = 1
     /\ Widen(kernel_interval_list_[1].start, 12) =
          ExactNs(TheTicks.start, timer_frequency_)
     /\ Widen(kernel_interval_list_[1].end, 12) =
          ExactNs(CorrectedEnd, timer_frequency_)

\* what holds of it: the conversion is exact for ticks below 2^32
ShortTicksConvertExactly ==
  (/\ Converted
   /\ Less(TheTicks.start, Two32)
   /\ Less(TheTicks.end, Two32))
  => /\ ~aborted
     /\ Len(kernel_interval_list_) = 1
     /\ Widen(kernel_interval_list_[1].start, 12) =
          ExactNs(TheTicks.start, timer_frequency_)
     /\ Widen(kernel_interval_list_[1].end, 12) =
          ExactNs(CorrectedEnd, timer_frequency_)
====
